---- MODULE Spec2Model ----
(***************************************************************************)
(* Verification model of libautomotive: the ISO-TP segmenter/reassembler   *)
(* (transport/isotp.rs), the UDS request engine (application/uds.rs), the  *)
(* J1939 adapter (network/j1939.rs) and the OBD-II DTC decoder             *)
(* (application/obdii.rs).                                                 *)
(*                                                                         *)
(* Each subsystem has its own specification over the shared variables:     *)
(*   SpecIsoTp       a sender and a receiver endpoint joined by a clean    *)
(*                   pair of frame pipes                                   *)
(*   SpecIsoTpFault  the same pair on a pipe that may alter the sequence   *)
(*                   nibble of one Consecutive Frame in flight             *)
(*   SpecIsoTpMalformed  the same pair with a peer that may send one frame *)
(*                   cut short                                             *)
(*   SpecIsoTpLength the same pair with payloads at and beyond the limits   *)
(*                   of the First Frame length field                       *)
(*   SpecIsoTpStray  the same pair with a peer that may send one frame that *)
(*                   is not part of the transfer                           *)
(*   SpecUds         the UDS engine driven by service calls, with the ECU  *)
(*                   answers of each call drawn from a bounded set         *)
(*   SpecJ1939       two J1939 nodes on one bus                            *)
(*   SpecCan         a CAN or CAN FD controller and its transmit queue     *)
(*   SpecJ1939Claim  the same nodes with claim_address run one receive at  *)
(*                   a time, and the port timeout set by the caller        *)
(*   SpecCodec       the J1939 identifier codec applied to drawn addresses *)
(*   SpecDtc         the OBD-II DTC formatter applied to every 2-byte word *)
(*   SpecDownload    a Downloader transferring a byte string block by      *)
(*                   block through an open UDS engine                      *)
(***************************************************************************)
EXTENDS Integers, Sequences, FiniteSets, TLC

VARIABLES
    \* ---- ISO-TP pair ----
    config,      \* IsoTpConfig shared by both endpoints (address mode, padding) plus the receiver's block_size / st_min
    payload,     \* the byte string handed to IsoTp::send
    sender,      \* locals of IsoTp::send / send_multi_frame on the sending endpoint
    receiver,    \* locals of IsoTp::receive / receive_multi_frame on the receiving endpoint
    toRx,        \* frames handed to the physical layer by the sender, not yet read by the receiver
    toTx,        \* frames handed to the physical layer by the receiver, not yet read by the sender
    wire,        \* every frame the sender handed to the physical layer, in order
    tampered,    \* TRUE once a frame in flight has been altered
    \* ---- UDS engine ----
    uds,         \* Uds: is_open, the SessionStatus fields, and whether its transport is open
    now,         \* std::time::Instant::now(), in milliseconds
    uds_rx,      \* frames the ECU has sent that transport.read_frame has not returned yet
    last,        \* record of the most recent service call: what it read, wrote and returned
    \* ---- J1939 nodes ----
    nodes,       \* J1939 per node: config, is_open, current_address, physical layer state
    bus,         \* per node, the frames on the bus that its physical.receive_frame has not returned yet
    jlast,       \* record of the most recent J1939 call
    \* ---- pure functions ----
    codec,       \* input and output of the J1939 identifier codec
    dtc,         \* input and output of the OBD-II DTC formatter
    \* ---- UDS Downloader ----
    dl,          \* Downloader and the locals of Downloader::transfer_data
    \* ---- CAN controller ----
    can          \* Can / CanFd: is_open, tx_queue, tx_events, and the frames handed to its port

isotpVars == <<config, payload, sender, receiver, toRx, toTx, wire, tampered>>
udsVars == <<uds, now, uds_rx, last>>
j1939Vars == <<nodes, bus, jlast>>
pureVars == <<codec, dtc>>
dlVars == <<dl>>
canVars == <<can>>

vars == <<isotpVars, udsVars, j1939Vars, pureVars, dlVars, canVars>>

(***************************************************************************)
(* Bounds of the model                                                     *)
(***************************************************************************)
MaxShortLen == 22      \* payload lengths 1..MaxShortLen are all tried
MaxLongLen == 125      \* plus one long payload whose CF counter wraps past 15
MaxBlockSize == 2      \* receiver block_size ranges over 0..MaxBlockSize

(***************************************************************************)
(* Machine arithmetic                                                      *)
(***************************************************************************)
RECURSIVE BitAnd(_, _)
BitAnd(a, b) ==
    IF a = 0 \/ b = 0 THEN 0
    ELSE (IF a % 2 = 1 /\ b % 2 = 1 THEN 1 ELSE 0) + 2 * BitAnd(a \div 2, b \div 2)

RECURSIVE BitOr(_, _)
BitOr(a, b) ==
    IF a = 0 THEN b
    ELSE IF b = 0 THEN a
    ELSE (IF a % 2 = 1 \/ b % 2 = 1 THEN 1 ELSE 0) + 2 * BitOr(a \div 2, b \div 2)

Min(a, b) == IF a < b THEN a ELSE b

\* `x as u8`
AsU8(x) == x % 256

(***************************************************************************)
(* ISO-TP constants and configuration                                      *)
(***************************************************************************)
PCI_SF == 0       \* SF_PCI (the prefix SF_ is reserved in TLA+)
PCI_FF == 16      \* FF_PCI
PCI_CF == 32      \* CF_PCI
PCI_FC == 48      \* FC_PCI

AddressModes == {"Normal", "Extended", "Mixed"}

SenderTxId == 291      \* 0x123, as in the repository's tests
ReceiverTxId == 1110   \* 0x456
AddressExtension == 85 \* 0x55
PaddingValue == 170    \* 0xAA

\* STmin bytes announced by the receiver: both millisecond ends, a reserved
\* value, and the 100us range on both sides of the 8-bit product limit
StMinValues == {0, 127, 128, 241, 242, 243, 249, 255}

PayloadLens == (1..MaxShortLen) \cup {MaxLongLen}

\* payload contents: a ramp, or every byte equal to the padding value
PayloadKinds == {"ramp", "pad"}

MkPayload(len, kind) ==
    [i \in 1..len |-> IF kind = "ramp" THEN (i * 37) % 256 ELSE PaddingValue]

Frame(id, data) == [id |-> id, data |-> data, is_extended |-> FALSE]

\* apply_padding: right-pad to 8 bytes when use_padding is set
RECURSIVE apply_padding(_)
apply_padding(data) ==
    IF config.use_padding /\ Len(data) < 8
    THEN apply_padding(Append(data, PaddingValue))
    ELSE data

\* send_frame_with_addressing: the frame that reaches physical.send_frame
send_frame_with_addressing(frame) ==
    CASE config.address_mode = "Normal" -> frame
      [] config.address_mode = "Extended" ->
            [frame EXCEPT !.data = <<AddressExtension>> \o frame.data]
      [] config.address_mode = "Mixed" ->
            \* frame.id & 0xFFFFFF00 clears the low byte of the u32 identifier
            [frame EXCEPT !.id = BitOr((frame.id \div 256) * 256, AddressExtension)]

\* the bytes the address mode puts in front of the PCI byte
AddressBytes == IF config.address_mode = "Extended" THEN 1 ELSE 0

\* receive_frame_with_addressing applied to the frame physical.receive_frame
\* returned: [ok |-> FALSE] stands for the Err(IsoTpError) returns
receive_frame_with_addressing(frame) ==
    CASE config.address_mode = "Normal" -> [ok |-> TRUE, frame |-> frame]
      [] config.address_mode = "Extended" ->
            IF frame.data = <<>> THEN [ok |-> FALSE, frame |-> frame]
            ELSE IF frame.data[1] # AddressExtension THEN [ok |-> FALSE, frame |-> frame]
            ELSE [ok |-> TRUE, frame |-> [frame EXCEPT !.data = Tail(frame.data)]]
      [] config.address_mode = "Mixed" ->
            IF BitAnd(frame.id, 255) # AddressExtension THEN [ok |-> FALSE, frame |-> frame]
            ELSE [ok |-> TRUE, frame |-> frame]

\* high nibble of the PCI byte: frame.data[0] & 0xF0
PciType(data) == BitAnd(data[1], 240)

\* Rust slice data[from..to] (0-based, to exclusive) of a long enough vector
Slice(data, from, to) == SubSeq(data, from + 1, to)

(***************************************************************************)
(* ISO-TP sender: IsoTp::send, send_single_frame, send_multi_frame         *)
(***************************************************************************)
SenderIdle ==
    [is_open |-> FALSE, pc |-> "idle", result |-> "none", index |-> 0, sequence |-> 0,
     frames_sent |-> 0, block_size |-> 0, st_min |-> 0, separation |-> 0, flow_status |-> 0]

ReceiverIdle ==
    [is_open |-> FALSE, pc |-> "idle", result |-> "none", len |-> 0, data |-> <<>>,
     expected_sequence |-> 0, frames_received |-> 0, out |-> <<>>,
     first |-> <<>>, skipped |-> 0]

\* IsoTp::open; the two instances have different tx_id and rx_id, so
\* config.validate() succeeds
IsoTpOpen(instance) == [instance EXCEPT !.is_open = TRUE]

\* IsoTp::close
IsoTpClose(instance) == [instance EXCEPT !.is_open = FALSE]

\* a send or receive that goes on although the instance is not open
NotOpenIgnored(instance) == FALSE

\* if !self.is_open { return Err(AutomotiveError::NotInitialized); }
NotOpen(instance) == ~instance.is_open

\* open() and close() of the sending instance, between calls of send
SenderOpen ==
    /\ sender.pc = "idle"
    /\ ~sender.is_open
    /\ sender' = IsoTpOpen(sender)
    /\ UNCHANGED <<config, payload, receiver, toRx, toTx, wire, tampered>>
    /\ UNCHANGED <<udsVars, j1939Vars, pureVars, dlVars, canVars>>

SenderClose ==
    /\ sender.pc = "idle"
    /\ sender.is_open
    /\ sender' = IsoTpClose(sender)
    /\ UNCHANGED <<config, payload, receiver, toRx, toTx, wire, tampered>>
    /\ UNCHANGED <<udsVars, j1939Vars, pureVars, dlVars, canVars>>

\* open() and close() of the receiving instance, between calls of receive
ReceiverOpen ==
    /\ receiver.pc = "idle"
    /\ ~receiver.is_open
    /\ receiver' = IsoTpOpen(receiver)
    /\ UNCHANGED <<config, payload, sender, toRx, toTx, wire, tampered>>
    /\ UNCHANGED <<udsVars, j1939Vars, pureVars, dlVars, canVars>>

ReceiverClose ==
    /\ receiver.pc = "idle"
    /\ receiver.is_open
    /\ receiver' = IsoTpClose(receiver)
    /\ UNCHANGED <<config, payload, sender, toRx, toTx, wire, tampered>>
    /\ UNCHANGED <<udsVars, j1939Vars, pureVars, dlVars, canVars>>

\* the sender hands a frame to physical.send_frame
SenderEmit(data) ==
    LET f == send_frame_with_addressing(Frame(SenderTxId, apply_padding(data)))
    IN  /\ toRx' = Append(toRx, f)
        /\ wire' = Append(wire, f)

\* a counter that wraps after 7 instead of 15
NextSequenceMod8(sequence) == BitAnd(sequence + 1, 7)

\* sequence = (sequence + 1) & 0x0F
NextSequence(sequence) == BitAnd(sequence + 1, 15)

\* The separation-time branch after a Consecutive Frame, as the set of its
\* outcomes.  st_min is a u8, so (st_min - 0xF0) * 100 is an 8-bit product:
\* with overflow checks compiled in (debug profile) a product above 255
\* panics, without them (release profile) it wraps.  Values outside both
\* ranges sleep not at all.  micros is the time slept.
StMinSleep(st_min) ==
    IF st_min <= 127 THEN {[panic |-> FALSE, micros |-> st_min * 1000]}
    ELSE IF st_min >= 241 /\ st_min <= 249 THEN
        LET product == (st_min - 240) * 100
        IN  IF product > 255
            THEN {[panic |-> TRUE, micros |-> 0], [panic |-> FALSE, micros |-> product % 256]}
            ELSE {[panic |-> FALSE, micros |-> product]}
    ELSE {[panic |-> FALSE, micros |-> 0]}

\* the tail of one iteration of the Consecutive Frame loop: separation time,
\* index += chunk_size, sequence increment, and the loop test
FinishIteration(s, o) ==
    IF o.panic THEN [s EXCEPT !.pc = "done", !.result = "Panic"]
    ELSE LET chunk_size == Min(Len(payload) - s.index, 7)
             index == s.index + chunk_size
         IN  [s EXCEPT !.index = index,
                       !.sequence = NextSequence(s.sequence),
                       !.separation = o.micros,
                       !.pc = IF index < Len(payload) THEN "send_cf" ELSE "done",
                       !.result = IF index < Len(payload) THEN "none" ELSE "Ok"]

\* IsoTp::send up to the first wait: a Single Frame, or the First Frame
Send ==
    /\ sender.pc = "idle"
    /\ LET len == Len(payload) IN
       IF NotOpen(sender) THEN
            /\ sender' = [sender EXCEPT !.pc = "done", !.result = "NotInitialized"]
            /\ UNCHANGED <<toRx, wire>>
       ELSE IF len = 0 THEN
            /\ sender' = [sender EXCEPT !.pc = "done", !.result = "InvalidParameter"]
            /\ UNCHANGED <<toRx, wire>>
       ELSE IF len <= 7 THEN
            /\ SenderEmit(<<BitOr(PCI_SF, AsU8(len))>> \o payload)
            /\ sender' = [sender EXCEPT !.pc = "done", !.result = "Ok"]
       ELSE
            /\ SenderEmit(<<BitOr(PCI_FF, AsU8(len \div 256)), AsU8(len)>> \o Slice(payload, 0, 6))
            /\ sender' = [sender EXCEPT !.pc = "wait_fc"]
    /\ UNCHANGED <<config, payload, receiver, toTx, tampered>>
    /\ UNCHANGED <<udsVars, j1939Vars, pureVars, dlVars, canVars>>

IsFlowControl(r) == r.ok /\ r.frame.data # <<>> /\ PciType(r.frame.data) = PCI_FC

\* the flow status of a Flow Control frame, the low nibble of its PCI byte:
\* 0 continue to send (CTS), 1 wait (WAIT), 2 overflow (OVFL).  The sender
\* never reads it; sender.flow_status records it for the last Flow Control
\* the sender took.
FlowStatus(data) == BitAnd(data[1], 15)

\* the wait for the first Flow Control: one frame read from the physical layer
SendWaitFC ==
    /\ sender.pc = "wait_fc"
    /\ toTx # <<>>
    /\ LET r == receive_frame_with_addressing(Head(toTx)) IN
       sender' =
         IF IsFlowControl(r) THEN
            IF Len(r.frame.data) < 3
            THEN [sender EXCEPT !.pc = "done", !.result = "IndexPanic"]
            ELSE [sender EXCEPT !.pc = "send_cf", !.block_size = r.frame.data[2],
                                !.st_min = r.frame.data[3], !.index = 6,
                                !.sequence = 1, !.frames_sent = 0,
                                !.flow_status = FlowStatus(r.frame.data)]
         ELSE sender
    /\ toTx' = Tail(toTx)
    /\ UNCHANGED <<config, payload, receiver, toRx, wire, tampered>>
    /\ UNCHANGED <<udsVars, j1939Vars, pureVars, dlVars, canVars>>

\* one Consecutive Frame: built, sent, counted; then either the block is full
\* and the sender waits for the next Flow Control, or the iteration finishes
SendCF ==
    /\ sender.pc = "send_cf"
    /\ LET chunk_size == Min(Len(payload) - sender.index, 7)
           frames_sent == sender.frames_sent + 1
       IN  /\ SenderEmit(<<BitOr(PCI_CF, sender.sequence)>>
                          \o Slice(payload, sender.index, sender.index + chunk_size))
           /\ IF sender.block_size > 0 /\ frames_sent = sender.block_size
              THEN sender' = [sender EXCEPT !.frames_sent = 0, !.pc = "wait_next_fc"]
              ELSE \E o \in StMinSleep(sender.st_min) :
                      sender' = FinishIteration([sender EXCEPT !.frames_sent = frames_sent], o)
    /\ UNCHANGED <<config, payload, receiver, toTx, tampered>>
    /\ UNCHANGED <<udsVars, j1939Vars, pureVars, dlVars, canVars>>

\* the wait for the next Flow Control after a full block
SendWaitNextFC ==
    /\ sender.pc = "wait_next_fc"
    /\ toTx # <<>>
    /\ LET r == receive_frame_with_addressing(Head(toTx)) IN
       IF IsFlowControl(r)
       THEN \E o \in StMinSleep(sender.st_min) :
                sender' = FinishIteration(
                              [sender EXCEPT !.flow_status = FlowStatus(r.frame.data)], o)
       ELSE sender' = sender
    /\ toTx' = Tail(toTx)
    /\ UNCHANGED <<config, payload, receiver, toRx, wire, tampered>>
    /\ UNCHANGED <<udsVars, j1939Vars, pureVars, dlVars, canVars>>

\* N_Bs expires: no Flow Control can arrive any more
SendFCTimeout ==
    /\ sender.pc \in {"wait_fc", "wait_next_fc"}
    /\ toTx = <<>>
    /\ receiver.pc = "done"
    /\ sender' = [sender EXCEPT !.pc = "done", !.result = "IsoTpError"]
    /\ UNCHANGED <<config, payload, receiver, toRx, toTx, wire, tampered>>
    /\ UNCHANGED <<udsVars, j1939Vars, pureVars, dlVars, canVars>>

(***************************************************************************)
(* ISO-TP receiver: IsoTp::receive, receive_single_frame,                  *)
(* receive_multi_frame                                                     *)
(***************************************************************************)
\* the Flow Control frame the receiver hands to physical.send_frame
FlowControlFrame ==
    send_frame_with_addressing(
        Frame(ReceiverTxId, apply_padding(<<PCI_FC, config.block_size, config.st_min>>)))

ReceiverFail(kind) == [receiver EXCEPT !.pc = "done", !.result = kind]

\* history: the frame that IsoTp::receive classified by its PCI
Classified(r, data) == [r EXCEPT !.first = data]

\* receive_single_frame
receive_single_frame(data) ==
    LET len == BitAnd(data[1], 15) IN
    IF len = 0 \/ len > Len(data) - 1
    THEN ReceiverFail("IsoTpError")
    ELSE [receiver EXCEPT !.pc = "done", !.result = "Ok", !.out = Slice(data, 1, len + 1)]

\* a receiver that accepts whatever sequence nibble arrives
SequenceMatchesAny(sequence, expected_sequence) == TRUE

\* if sequence != expected_sequence { return Err(..) }
SequenceMatches(sequence, expected_sequence) == sequence = expected_sequence

\* expected_sequence = (expected_sequence + 1) & 0x0F
NextExpectedSequence(expected_sequence) == BitAnd(expected_sequence + 1, 15)

\* IsoTp::receive: the first frame is read and classified; a First Frame
\* starts receive_multi_frame, which answers with a Flow Control
Receive ==
    /\ receiver.pc = "idle"
    /\ IF NotOpen(receiver) THEN
            /\ receiver' = ReceiverFail("NotInitialized")
            /\ UNCHANGED <<toRx, toTx>>
       ELSE
         /\ toRx # <<>>
         /\ toRx' = Tail(toRx)
         /\ LET r == receive_frame_with_addressing(Head(toRx))
                data == r.frame.data
            IN  IF ~r.ok THEN
                     UNCHANGED <<receiver, toTx>>
                ELSE IF data = <<>> THEN
                     receiver' = ReceiverFail("IsoTpError") /\ UNCHANGED toTx
                ELSE IF PciType(data) = PCI_SF THEN
                     receiver' = Classified(receive_single_frame(data), data) /\ UNCHANGED toTx
                ELSE IF PciType(data) = PCI_FF THEN
                     IF Len(data) < 2 THEN
                         receiver' = Classified(ReceiverFail("IndexPanic"), data) /\ UNCHANGED toTx
                     ELSE LET len == BitOr(BitAnd(data[1], 15) * 256, data[2]) IN
                         IF len < 8 THEN
                             receiver' = Classified(ReceiverFail("IsoTpError"), data) /\ UNCHANGED toTx
                         ELSE IF Len(data) < 8 THEN
                             receiver' = Classified(ReceiverFail("IndexPanic"), data) /\ UNCHANGED toTx
                         ELSE
                             /\ toTx' = Append(toTx, FlowControlFrame)
                             /\ receiver' = [receiver EXCEPT !.pc = "wait_cf", !.len = len,
                                                 !.data = Slice(data, 2, 8),
                                                 !.expected_sequence = 1,
                                                 !.frames_received = 0,
                                                 !.first = data]
                ELSE receiver' = Classified(ReceiverFail("IsoTpError"), data) /\ UNCHANGED toTx
    /\ UNCHANGED <<config, payload, sender, wire, tampered>>
    /\ UNCHANGED <<udsVars, j1939Vars, pureVars, dlVars, canVars>>

IsConsecutive(r) == r.ok /\ r.frame.data # <<>> /\ PciType(r.frame.data) = PCI_CF

\* one frame read while reassembling: frames that are not Consecutive Frames
\* are skipped (receiver.skipped counts those that were read without error);
\* a Consecutive Frame is checked, copied and counted
ReceiveCF ==
    /\ receiver.pc = "wait_cf"
    /\ toRx # <<>>
    /\ toRx' = Tail(toRx)
    /\ LET r == receive_frame_with_addressing(Head(toRx))
           cf == r.frame.data
       IN  IF ~IsConsecutive(r) THEN
                /\ receiver' = IF r.ok THEN [receiver EXCEPT !.skipped = @ + 1] ELSE receiver
                /\ UNCHANGED toTx
           ELSE IF ~SequenceMatches(BitAnd(cf[1], 15), receiver.expected_sequence) THEN
                receiver' = ReceiverFail("IsoTpError") /\ UNCHANGED toTx
           ELSE LET chunk_size == Min(receiver.len - Len(receiver.data), 7) IN
                IF Len(cf) < chunk_size + 1 THEN
                    receiver' = ReceiverFail("IndexPanic") /\ UNCHANGED toTx
                ELSE LET data == receiver.data \o Slice(cf, 1, chunk_size + 1)
                         frames_received == receiver.frames_received + 1
                         block_full == config.block_size > 0 /\ frames_received = config.block_size
                     IN  /\ toTx' = IF block_full THEN Append(toTx, FlowControlFrame) ELSE toTx
                         /\ receiver' =
                              [receiver EXCEPT
                                 !.data = data,
                                 !.frames_received = IF block_full THEN 0 ELSE frames_received,
                                 !.expected_sequence = NextExpectedSequence(receiver.expected_sequence),
                                 !.pc = IF Len(data) < receiver.len THEN "wait_cf" ELSE "done",
                                 !.result = IF Len(data) < receiver.len THEN "none" ELSE "Ok",
                                 !.out = IF Len(data) < receiver.len THEN <<>> ELSE data]
    /\ UNCHANGED <<config, payload, sender, wire, tampered>>
    /\ UNCHANGED <<udsVars, j1939Vars, pureVars, dlVars, canVars>>

\* N_Cr expires: no Consecutive Frame can arrive any more
ReceiveCFTimeout ==
    /\ receiver.pc = "wait_cf"
    /\ toRx = <<>>
    /\ sender.pc = "done"
    /\ receiver' = ReceiverFail("IsoTpError")
    /\ UNCHANGED <<config, payload, sender, toRx, toTx, wire, tampered>>
    /\ UNCHANGED <<udsVars, j1939Vars, pureVars, dlVars, canVars>>

\* N_Ar expires: receive was called and the peer has not sent anything yet
ReceiveTimeout ==
    /\ receiver.pc = "idle"
    /\ receiver.is_open
    /\ toRx = <<>>
    /\ sender.pc = "idle"
    /\ receiver' = ReceiverFail("IsoTpError")
    /\ UNCHANGED <<config, payload, sender, toRx, toTx, wire, tampered>>
    /\ UNCHANGED <<udsVars, j1939Vars, pureVars, dlVars, canVars>>

\* a peer that answers with flow status WAIT or OVFL: the status nibble of
\* a Flow Control frame on its way to the sender is 1 or 2 instead of 0
PeerFlowStatus ==
    /\ \E i \in 1..Len(toTx) :
         LET r == receive_frame_with_addressing(toTx[i])
             pos == IF config.address_mode = "Extended" THEN 2 ELSE 1
         IN  /\ IsFlowControl(r)
             /\ FlowStatus(r.frame.data) = 0
             /\ \E status \in {1, 2} :
                  toTx' = [toTx EXCEPT ![i].data[pos] = BitOr(PCI_FC, status)]
    /\ UNCHANGED <<config, payload, sender, receiver, toRx, wire, tampered>>
    /\ UNCHANGED <<udsVars, j1939Vars, pureVars, dlVars, canVars>>

\* the pipe alters the sequence nibble of one Consecutive Frame in flight
CorruptCF ==
    /\ ~tampered
    /\ \E i \in 1..Len(toRx) :
         LET r == receive_frame_with_addressing(toRx[i])
             pos == IF config.address_mode = "Extended" THEN 2 ELSE 1
         IN  /\ IsConsecutive(r)
             /\ \E nibble \in 0..15 :
                  /\ nibble # BitAnd(r.frame.data[1], 15)
                  /\ toRx' = [toRx EXCEPT ![i].data[pos] = BitOr(PCI_CF, nibble)]
    /\ tampered' = TRUE
    /\ UNCHANGED <<config, payload, sender, receiver, toTx, wire>>
    /\ UNCHANGED <<udsVars, j1939Vars, pureVars, dlVars, canVars>>

MaxKept == 2     \* a cut frame keeps 1..MaxKept bytes after its address byte

\* a peer that sends a malformed frame: one frame in flight, in either
\* direction, is cut down to its first bytes
TruncateFrame ==
    /\ ~tampered
    /\ \E kept \in 1..MaxKept :
         \/ /\ \E i \in 1..Len(toRx) :
                  /\ Len(toRx[i].data) > AddressBytes + kept
                  /\ toRx' = [toRx EXCEPT ![i].data = SubSeq(@, 1, AddressBytes + kept)]
            /\ UNCHANGED toTx
         \/ /\ \E i \in 1..Len(toTx) :
                  /\ Len(toTx[i].data) > AddressBytes + kept
                  /\ toTx' = [toTx EXCEPT ![i].data = SubSeq(@, 1, AddressBytes + kept)]
            /\ UNCHANGED toRx
    /\ tampered' = TRUE
    /\ UNCHANGED <<config, payload, sender, receiver, wire>>
    /\ UNCHANGED <<udsVars, j1939Vars, pureVars, dlVars, canVars>>

\* frames of each PCI type that are not part of the transfer: a Single Frame,
\* a First Frame announcing 8 bytes, a Consecutive Frame and a Flow Control
StrayData ==
    { <<BitOr(PCI_SF, 1), 153>>,
      <<PCI_FF, 8, 1, 2, 3, 4, 5, 6>>,
      <<BitOr(PCI_CF, 1), 1, 2, 3, 4, 5, 6, 7>>,
      <<PCI_FC, 0, 0>> }

\* a peer that sends one frame of its own, before or between the frames of
\* the transfer; it carries the address the receiver expects
StrayFrame ==
    /\ ~tampered
    /\ receiver.pc # "done"
    /\ \E data \in StrayData :
         toRx' = Append(toRx, send_frame_with_addressing(Frame(SenderTxId, data)))
    /\ tampered' = TRUE
    /\ UNCHANGED <<config, payload, sender, receiver, toTx, wire>>
    /\ UNCHANGED <<udsVars, j1939Vars, pureVars, dlVars, canVars>>

(***************************************************************************)
(* UDS engine: application/uds.rs                                          *)
(***************************************************************************)
SID_DIAGNOSTIC_SESSION_CONTROL == 16   \* 0x10
SID_ECU_RESET == 17                    \* 0x11
SID_SECURITY_ACCESS == 39              \* 0x27
SID_TESTER_PRESENT == 62               \* 0x3E
SID_READ_DATA_BY_ID == 34              \* 0x22
SID_WRITE_DATA_BY_ID == 46             \* 0x2E
SID_READ_MEMORY_BY_ADDRESS == 35       \* 0x23
SID_WRITE_MEMORY_BY_ADDRESS == 61      \* 0x3D
NRC_RESPONSE_PENDING == 120            \* 0x78
NRC_REQUEST_OUT_OF_RANGE == 49         \* 0x31

\* UdsSessionType and its wire values
SessionTypes == {"Default", "Programming", "Extended", "SafetySystem"}

SessionCode(session_type) ==
    CASE session_type = "Default" -> 1
      [] session_type = "Programming" -> 2
      [] session_type = "Extended" -> 3
      [] session_type = "SafetySystem" -> 4

\* UdsConfig::default().s3_client_timeout_ms
s3_client_timeout_ms == 5000

\* let max_retries = 5
max_retries == 5

\* the loop given up after 3 pending responses
RetriesExhaustedEarly(retry_count) == retry_count >= 3

\* if retry_count >= max_retries
RetriesExhausted(retry_count) == retry_count >= max_retries

\* SessionStatus::default()
SessionStatusDefault(s) ==
    [s EXCEPT !.session_type = "Default", !.security_level = 0,
              !.last_activity = now, !.tester_present_sent = FALSE]

\* what send_request hands back when it returns Err
NoResponse == [service_id |-> 0, data |-> <<>>]

IsPending(frame, service_id) ==
    /\ Len(frame) >= 3
    /\ frame[1] = 127
    /\ frame[2] = service_id
    /\ frame[3] = NRC_RESPONSE_PENDING

\* The response loop of send_request.  rxq holds the frames read_frame will
\* return, in order; an exhausted rxq is a read_frame that fails with
\* Timeout.  retry_count, written and consumed count the pending responses
\* seen, the write_frame calls made and the frames read so far.
RECURSIVE ResponseLoop(_, _, _, _, _)
ResponseLoop(service_id, rxq, retry_count, written, consumed) ==
    IF rxq = <<>> THEN
        [result |-> "Timeout", response |-> NoResponse, written |-> written, consumed |-> consumed]
    ELSE LET response == Head(rxq) IN
        IF response = <<>> THEN
            [result |-> "InvalidParameter", response |-> NoResponse,
             written |-> written, consumed |-> consumed + 1]
        ELSE IF IsPending(response, service_id) THEN
            IF RetriesExhausted(retry_count + 1) THEN
                \* the loop is left and a made-up positive response is returned
                [result |-> "Ok", response |-> [service_id |-> 126, data |-> <<0>>],
                 written |-> written, consumed |-> consumed + 1]
            ELSE \* the request is written again
                ResponseLoop(service_id, Tail(rxq), retry_count + 1, written + 1, consumed + 1)
        ELSE
            [result |-> "Ok", response |-> [service_id |-> response[1], data |-> Tail(response)],
             written |-> written, consumed |-> consumed + 1]

\* Uds::send_request for the request bytes data = [service_id, parameters...]
\* with the engine in state s and rxq the frames the transport will deliver
send_request(s, data, rxq) ==
    IF ~s.is_open THEN
        [result |-> "NotInitialized", response |-> NoResponse, written |-> 0, consumed |-> 0]
    ELSE IF ~s.transport_open THEN
        \* transport.write_frame fails and the error is passed on
        [result |-> "NotInitialized", response |-> NoResponse, written |-> 0, consumed |-> 0]
    ELSE ResponseLoop(data[1], rxq, 0, 1, 0)

\* the number of pending responses for service_id at the front of frames
RECURSIVE PendingPrefix(_, _)
PendingPrefix(frames, service_id) ==
    IF frames = <<>> THEN 0
    ELSE IF IsPending(Head(frames), service_id)
         THEN 1 + PendingPrefix(Tail(frames), service_id)
         ELSE 0

\* is the S3 timeout exceeded in a non-Default session
S3Expired(s) ==
    /\ s.session_type # "Default"
    /\ now - s.last_activity > s3_client_timeout_ms

\* the ECU's answer among the frames one send_request read: the first frame
\* that is not a pending response, if any
Answer(frames, service_id) ==
    LET k == PendingPrefix(frames, service_id)
    IN  IF k < Len(frames) THEN <<frames[k + 1]>> ELSE <<>>

\* The record of a call.  expired: the S3 timeout was exceeded when the call
\* began; tx_session: session_type when the first request frame was written
\* ("none" if no frame was written); offered: the frames the transport had
\* for the call, in order; consumed: those it read; answers: the
\* ECU's answer to each request of the call; result, response, value: what
\* the call returned and what its last send_request returned; requests: the
\* request of each send_request that wrote a frame; key_fn: the key function
\* passed to security_access; stale: the number of frames that were unread
\* when the call began.
NoCall ==
    [op |-> "none", service_id |-> 0, expired |-> FALSE, tx_session |-> "none",
     written |-> 0, offered |-> <<>>, consumed |-> <<>>, answers |-> <<>>,
     result |-> "none",
     response |-> NoResponse, value |-> <<>>,
     pre_session |-> "Default", pre_level |-> 0,
     requests |-> <<>>, key_fn |-> "none", stale |-> 0, after_close |-> FALSE]

\* the record of a call that made one send_request with outcome r
CallRecord(op, data, rxq, r, result, value) ==
    [op |-> op, service_id |-> data[1], expired |-> S3Expired(uds),
     tx_session |-> IF r.written > 0 THEN uds.session_type ELSE "none",
     written |-> r.written, offered |-> rxq, consumed |-> SubSeq(rxq, 1, r.consumed),
     answers |-> Answer(SubSeq(rxq, 1, r.consumed), data[1]),
     result |-> result, response |-> r.response, value |-> value,
     pre_session |-> uds.session_type, pre_level |-> uds.security_level,
     requests |-> IF r.written > 0 THEN <<data>> ELSE <<>>, key_fn |-> "none",
     stale |-> Len(uds_rx), after_close |-> FALSE]

(***************************************************************************)
(* The ECU.  While a call is in progress the ECU sends a script: some      *)
(* pending responses for the request followed by at most one other frame.  *)
(***************************************************************************)
MaxPending == 5     \* the ECU sends 0..MaxPending pending responses per request
MaxTicks == 3       \* the clock advances at most MaxTicks times

\* the clock advances in steps of TickMs: one step stays within the S3
\* timeout, two steps exceed it
TickMs == s3_client_timeout_ms \div 2 + 1

Pending(service_id) == <<127, service_id, NRC_RESPONSE_PENDING>>

RECURSIVE Pendings(_, _)
Pendings(service_id, k) ==
    IF k = 0 THEN <<>> ELSE <<Pending(service_id)>> \o Pendings(service_id, k - 1)

\* frames the ECU may end its answer to the request data with: a positive
\* response that is bare, echoes the parameters, or echoes them and adds a
\* data byte; a negative response; a response of another service; an empty
\* frame
FinalFrames(data) ==
    {<<data[1] + 64>>,
     <<data[1] + 64>> \o Tail(data),
     <<data[1] + 64>> \o Tail(data) \o <<171>>,
     <<127, data[1], NRC_REQUEST_OUT_OF_RANGE>>,
     <<data[1] + 65>> \o Tail(data),
     <<>>}

\* fewer than maxk pending responses and then silence or a final frame, or
\* maxk pending responses
EcuScripts(data, maxk) ==
    {Pendings(data[1], k) \o tl :
        k \in 0..(maxk - 1), tl \in {<<>>} \cup {<<f>> : f \in FinalFrames(data)}}
    \cup {Pendings(data[1], maxk)}

\* With a frame still unread when a call begins, the bounded model lets the
\* ECU answer the new request with silence or with its bare positive
\* response.
StaleScripts(data) == {<<>>, << <<data[1] + 64>> >>}

\* what the ECU sends on a TesterPresent request: nothing or the positive
\* response
TesterPresentReplies ==
    IF uds_rx = <<>>
    THEN {<<>>, << <<SID_TESTER_PRESENT + 64, 0>> >>}
    ELSE {<<>>}

\* the stack is single-threaded: a call starts only once the caller has taken
\* the result of the previous one
CallerReady == last.op = "none"

\* the scripts the ECU may send during a call for the request data
Scripts(data, maxk) ==
    IF uds_rx = <<>> THEN EcuScripts(data, maxk) ELSE StaleScripts(data)

\* the frames read_frame can return during a call in which the ECU sends
\* script: the ECU answers only a request that reaches it
Incoming(script) ==
    IF uds.is_open /\ uds.transport_open THEN uds_rx \o script ELSE uds_rx

\* a call with one send_request returns: engine state s2, frames left unread
Finish(op, data, rxq, r, result, value, s2) ==
    /\ uds' = s2
    /\ uds_rx' = SubSeq(rxq, r.consumed + 1, Len(rxq))
    /\ last' = CallRecord(op, data, rxq, r, result, value)
    /\ UNCHANGED <<now, isotpVars, j1939Vars, pureVars, dlVars, canVars>>

\* Uds::change_session
ChangeSession ==
    /\ CallerReady
    /\ \E session_type \in SessionTypes :
         LET data == <<SID_DIAGNOSTIC_SESSION_CONTROL, SessionCode(session_type)>> IN
         \E script \in Scripts(data, MaxPending) :
           LET rxq == Incoming(script)
               r == send_request(uds, data, rxq)
           IN  IF r.result # "Ok" THEN
                    Finish("change_session", data, rxq, r, r.result, <<>>, uds)
               ELSE IF r.response.data = <<>> THEN
                    Finish("change_session", data, rxq, r, "InvalidParameter", <<>>, uds)
               ELSE Finish("change_session", data, rxq, r, "Ok", <<>>,
                           [uds EXCEPT !.session_type = session_type, !.last_activity = now])

\* the services that succeed on a response without data: on Ok(response)
\* they return Ok when response.data is empty and UdsError otherwise
ExpectEmpty(op, data) ==
    /\ CallerReady
    /\ \E script \in Scripts(data, MaxPending) :
         LET rxq == Incoming(script)
             r == send_request(uds, data, rxq)
         IN  IF r.result # "Ok" THEN Finish(op, data, rxq, r, r.result, <<>>, uds)
             ELSE IF r.response.data = <<>> THEN Finish(op, data, rxq, r, "Ok", <<>>, uds)
             ELSE Finish(op, data, rxq, r, "UdsError", <<>>, uds)

\* the services that return the response data: UdsError on empty data
ExpectData(op, data) ==
    /\ CallerReady
    /\ \E script \in Scripts(data, MaxPending) :
         LET rxq == Incoming(script)
             r == send_request(uds, data, rxq)
         IN  IF r.result # "Ok" THEN Finish(op, data, rxq, r, r.result, <<>>, uds)
             ELSE IF r.response.data = <<>> THEN Finish(op, data, rxq, r, "UdsError", <<>>, uds)
             ELSE Finish(op, data, rxq, r, "Ok", r.response.data, uds)

\* Uds::ecu_reset(HardReset)
EcuReset == ExpectEmpty("ecu_reset", <<SID_ECU_RESET, 1>>)

\* Uds::read_data_by_id(0xF190)
ReadDataById == ExpectData("read_data_by_id", <<SID_READ_DATA_BY_ID, 241, 144>>)

\* Uds::write_data_by_id(0xF190, [0x01])
WriteDataById == ExpectEmpty("write_data_by_id", <<SID_WRITE_DATA_BY_ID, 241, 144, 1>>)

\* Uds::read_memory(0x12345678, 3)
ReadMemory ==
    ExpectData("read_memory", <<SID_READ_MEMORY_BY_ADDRESS, 4, 2, 18, 52, 86, 120, 0, 3>>)

\* Uds::write_memory(0x12345678, [0x01, 0x02, 0x03])
WriteMemory ==
    ExpectEmpty("write_memory",
                <<SID_WRITE_MEMORY_BY_ADDRESS, 4, 0, 3, 18, 52, 86, 120, 1, 2, 3>>)

\* Uds::tester_present
TesterPresent ==
    /\ CallerReady
    /\ LET data == <<SID_TESTER_PRESENT, 0>>
           record == [NoCall EXCEPT !.op = "tester_present", !.service_id = data[1],
                                    !.expired = S3Expired(uds),
                                    !.pre_session = uds.session_type,
                                    !.pre_level = uds.security_level,
                                    !.stale = Len(uds_rx)]
       IN  IF S3Expired(uds) THEN
                /\ uds' = SessionStatusDefault(uds)
                /\ last' = [record EXCEPT !.result = "Ok"]
                /\ UNCHANGED uds_rx
           ELSE IF ~uds.transport_open THEN
                /\ last' = [record EXCEPT !.result = "NotInitialized"]
                /\ UNCHANGED <<uds, uds_rx>>
           ELSE \E script \in TesterPresentReplies :
                /\ uds' = [uds EXCEPT !.tester_present_sent = TRUE, !.last_activity = now]
                /\ uds_rx' = uds_rx \o script
                /\ last' = [record EXCEPT !.result = "Ok", !.written = 1,
                                          !.tx_session = uds.session_type,
                                          !.requests = <<data>>]
    /\ UNCHANGED <<now, isotpVars, j1939Vars, pureVars, dlVars, canVars>>

\* the key function of the repository's integration test: every seed byte + 1
KeyFn(seed) == [i \in 1..Len(seed) |-> (seed[i] + 1) % 256]

\* the key functions a caller passes: the one of the integration test, and
\* the complement of every seed byte
KeyFns == {"increment", "complement"}

ApplyKeyFn(key_fn, seed) ==
    IF key_fn = "increment" THEN KeyFn(seed)
    ELSE [i \in 1..Len(seed) |-> 255 - seed[i]]

MaxLevel == 1         \* security_access is called with level 1..MaxLevel
MaxPendingKey == 1    \* pending responses per request of the handshake

\* the scripts the ECU may send for the second request of the handshake:
\* those of any request, and the positive response to SendKey of the level
KeyScripts(key_request, level) ==
    Scripts(key_request, MaxPendingKey)
        \cup (IF uds_rx = <<>> THEN {<< <<SID_SECURITY_ACCESS + 64, 2 * level>> >>} ELSE {})

\* Uds::security_access(level, key_fn)
SecurityAccess ==
    /\ CallerReady
    /\ \E level \in 1..MaxLevel, key_fn \in KeyFns :
         LET seed_request == <<SID_SECURITY_ACCESS, 2 * level - 1>> IN
         \E script \in Scripts(seed_request, MaxPendingKey) :
           LET rxq == Incoming(script)
               r == send_request(uds, seed_request, rxq)
           IN  IF r.result # "Ok" THEN
                    Finish("security_access", seed_request, rxq, r, r.result, <<>>, uds)
               ELSE IF r.response.data = <<>> THEN
                    Finish("security_access", seed_request, rxq, r, "UdsError", <<>>, uds)
               ELSE LET key == ApplyKeyFn(key_fn, r.response.data)
                        key_request == <<SID_SECURITY_ACCESS>> \o key
                        rest == SubSeq(rxq, r.consumed + 1, Len(rxq))
                    IN  \E key_script \in KeyScripts(key_request, level) :
                          LET rxq2 == rest \o key_script
                              r2 == send_request(uds, key_request, rxq2)
                              result == IF r2.result # "Ok" THEN r2.result
                                        ELSE IF r2.response.data = <<>> THEN "Ok"
                                        ELSE "UdsError"
                              first == CallRecord("security_access", seed_request, rxq, r, result, key)
                          IN  /\ uds' = IF result = "Ok"
                                        THEN [uds EXCEPT !.security_level = level,
                                                         !.last_activity = now]
                                        ELSE uds
                              /\ uds_rx' = SubSeq(rxq2, r2.consumed + 1, Len(rxq2))
                              /\ last' = [first EXCEPT
                                            !.written = r.written + r2.written,
                                            !.offered = rxq \o key_script,
                                            !.consumed = first.consumed \o SubSeq(rxq2, 1, r2.consumed),
                                            !.answers = first.answers
                                                \o Answer(SubSeq(rxq2, 1, r2.consumed), SID_SECURITY_ACCESS),
                                            !.response = r2.response,
                                            !.requests = first.requests
                                                \o (IF r2.written > 0 THEN <<key_request>>
                                                    ELSE <<>>),
                                            !.key_fn = key_fn]
                              /\ UNCHANGED <<now, isotpVars, j1939Vars, pureVars, dlVars, canVars>>

\* Uds::open
UdsOpen ==
    /\ CallerReady
    /\ uds' = IF uds.is_open THEN uds
              ELSE [uds EXCEPT !.transport_open = TRUE, !.is_open = TRUE]
    /\ last' = [NoCall EXCEPT !.op = "open", !.result = "Ok", !.after_close = last.after_close]
    /\ UNCHANGED <<now, uds_rx, isotpVars, j1939Vars, pureVars, dlVars, canVars>>

\* Uds::close
UdsClose ==
    /\ CallerReady
    /\ uds' = [uds EXCEPT !.is_open = FALSE]
    /\ last' = [NoCall EXCEPT !.op = "close", !.result = "Ok"]
    /\ UNCHANGED <<now, uds_rx, isotpVars, j1939Vars, pureVars, dlVars, canVars>>

\* time passes between calls
Tick ==
    /\ CallerReady
    /\ now + TickMs <= MaxTicks * TickMs
    /\ now' = now + TickMs
    /\ UNCHANGED <<uds, uds_rx, last, isotpVars, j1939Vars, pureVars, dlVars, canVars>>

\* the caller takes the result of the call; after_close tells that the call
\* that has just returned was close()
Returned ==
    /\ ~CallerReady
    /\ last' = [NoCall EXCEPT !.after_close = (last.op = "close")]
    /\ UNCHANGED <<uds, now, uds_rx, isotpVars, j1939Vars, pureVars, dlVars, canVars>>

\* Uds::with_transport
UdsCreated ==
    /\ uds \in [is_open : {FALSE}, transport_open : BOOLEAN, session_type : {"Default"},
                security_level : {0}, last_activity : {0}, tester_present_sent : {FALSE}]
    /\ now = 0
    /\ uds_rx = <<>>
    /\ last = NoCall

NextUds ==
    \/ UdsOpen
    \/ UdsClose
    \/ ChangeSession
    \/ EcuReset
    \/ ReadDataById
    \/ WriteDataById
    \/ ReadMemory
    \/ WriteMemory
    \/ TesterPresent
    \/ SecurityAccess
    \/ Tick
    \/ Returned


(***************************************************************************)
(* J1939 (network/j1939.rs).  Two nodes of the library share a bus with    *)
(* other devices.  nodes[n] is the J1939 object of node n together with    *)
(* its port; bus[n] holds the frames the port of node n has received and   *)
(* the node has not yet read; jlast records the last call.                 *)
(***************************************************************************)
PGN_ADDRESS_CLAIMED == 60928    \* 0xEE00
PGN_CANNOT_CLAIM == 60928       \* 0xEE00

\* Option<u8>::None of current_address
NoAddress == -1

Node == {1, 2}
Other(n) == 3 - n

\* a CAN frame as the J1939 layer sees it
J1939Frame(id, data, is_extended) == [id |-> id, data |-> data, is_extended |-> is_extended]

\* J1939Config::validate
validate(cfg) ==
    IF cfg.name = 0 THEN "InvalidParameter"
    ELSE IF cfg.address_range[1] > cfg.address_range[2] THEN "InvalidParameter"
    ELSE IF cfg.preferred_address < cfg.address_range[1]
            \/ cfg.preferred_address > cfg.address_range[2] THEN "InvalidParameter"
    ELSE "Ok"

\* J1939::build_frame: the source byte of the identifier is the node's own
\* current_address, 0xFF when it has none
build_frame(current_address, address, data) ==
    J1939Frame(BitOr(BitOr(address.priority * 67108864, address.pgn * 256),
                     IF current_address = NoAddress THEN 255 ELSE current_address),
               data, TRUE)

NoMessage == [ok |-> FALSE, address |-> [priority |-> 0, pgn |-> 0, source |-> 0, destination |-> 0],
              data |-> <<>>]

\* J1939::parse_frame
parse_frame(frame) ==
    IF ~frame.is_extended THEN NoMessage
    ELSE LET priority == BitAnd(frame.id \div 67108864, 7)
             pgn == BitAnd(frame.id \div 256, 262143)
             source == BitAnd(frame.id, 255)
             destination == IF BitAnd(pgn, 65280) = 0 THEN BitAnd(pgn, 255) ELSE 255
         IN  [ok |-> TRUE,
              address |-> [priority |-> priority, pgn |-> pgn, source |-> source,
                           destination |-> destination],
              data |-> frame.data]

\* the loop of send_address_claim: the n low bytes of name, lowest first
RECURSIVE NameBytesLow(_, _)
NameBytesLow(name, n) ==
    IF n = 0 THEN <<>> ELSE <<name % 256>> \o NameBytesLow(name \div 256, n - 1)

Reverse(s) == [i \in 1..Len(s) |-> s[Len(s) + 1 - i]]

\* name_bytes of send_address_claim
NameBytes(name) == Reverse(NameBytesLow(name, 8))

\* the NAME claim_address reads from the first 8 data bytes of a message
RECURSIVE NameOf(_, _)
NameOf(data, name) ==
    IF data = <<>> THEN name ELSE NameOf(Tail(data), name * 256 + Head(data))

Take(s, n) == SubSeq(s, 1, Min(n, Len(s)))

MaxQueue == 2       \* a port buffers at most MaxQueue unread frames

\* current_address.is_none() of J1939::send
UnclaimedIgnored(node) == FALSE
Unclaimed(node) == node.current_address = NoAddress

\* J1939::send: the result and the frames handed to the port
send(node, address, data) ==
    IF ~node.is_open THEN [result |-> "NotInitialized", sent |-> <<>>]
    ELSE IF Unclaimed(node) THEN [result |-> "J1939Error", sent |-> <<>>]
    ELSE IF ~node.port_open THEN [result |-> "NotInitialized", sent |-> <<>>]
    ELSE [result |-> "Ok", sent |-> <<build_frame(node.current_address, address, data)>>]

\* J1939::send_address_claim
send_address_claim(node, address) ==
    send(node,
         [priority |-> 6, pgn |-> PGN_ADDRESS_CLAIMED, source |-> address, destination |-> 255],
         NameBytes(node.config.name))

\* The listen loop of claim_address over the frames rxq the port delivers
\* before its 250 ms timeout; an exhausted rxq is a receive that fails with
\* Timeout.  A frame that does not parse is skipped.
\* the match arm of the listen loop that breaks with an error: a claim of
\* the same address by a lower NAME
Competing(msg, name, address) ==
    /\ msg.ok
    /\ msg.address.pgn = PGN_ADDRESS_CLAIMED
    /\ msg.address.source = address
    /\ NameOf(Take(msg.data, 8), 0) < name

RECURSIVE Listen(_, _, _, _)
Listen(name, address, rxq, consumed) ==
    IF rxq = <<>> THEN [result |-> "Ok", consumed |-> consumed]
    ELSE LET msg == parse_frame(Head(rxq)) IN
         IF Competing(msg, name, address)
         THEN [result |-> "J1939Error", consumed |-> consumed + 1]
         ELSE Listen(name, address, Tail(rxq), consumed + 1)

\* J1939::set_timeout, and physical.set_timeout behind it
set_timeout(node, timeout_ms) ==
    IF ~node.is_open THEN [result |-> "NotInitialized", node |-> node]
    ELSE IF ~node.port_open THEN [result |-> "NotInitialized", node |-> node]
    ELSE [result |-> "Ok", node |-> [node EXCEPT !.timeout = timeout_ms]]

\* let current_timeout = 1000; the value claim_address sets the port
\* timeout to after its listen loop
current_timeout == 1000

\* physical.set_timeout(250): the port timeout during the listen loop
claim_timeout == 250

\* J1939::claim_address with rxq the unread frames of the port: the result,
\* the node afterwards, the frames sent and the number of frames read
claim_address(node, address, rxq) ==
    IF ~node.is_open THEN
        [result |-> "NotInitialized", node |-> node, sent |-> <<>>, consumed |-> 0]
    ELSE IF address < node.config.address_range[1] \/ address > node.config.address_range[2] THEN
        [result |-> "InvalidParameter", node |-> node, sent |-> <<>>, consumed |-> 0]
    ELSE LET claim == send_address_claim(node, address) IN
         IF claim.result # "Ok" THEN
            [result |-> claim.result, node |-> node, sent |-> <<>>, consumed |-> 0]
         ELSE LET l == Listen(node.config.name, address, rxq, 0)
                  \* physical.set_timeout(250) before the loop and
                  \* physical.set_timeout(current_timeout) after it
                  restored == set_timeout(node, current_timeout).node
              IN
              IF l.result = "Ok" THEN
                 [result |-> "Ok", node |-> [restored EXCEPT !.current_address = address],
                  sent |-> claim.sent, consumed |-> l.consumed]
              ELSE LET cannot_claim == [priority |-> 6, pgn |-> PGN_CANNOT_CLAIM,
                                        source |-> 254, destination |-> 255]
                   IN  [result |-> l.result, node |-> restored,
                        sent |-> claim.sent \o send(node, cannot_claim, <<>>).sent,
                        consumed |-> l.consumed]

\* J1939::open
open(node, rxq) ==
    IF node.is_open THEN [result |-> "Ok", node |-> node, sent |-> <<>>, consumed |-> 0]
    ELSE IF validate(node.config) # "Ok" THEN
        [result |-> validate(node.config), node |-> node, sent |-> <<>>, consumed |-> 0]
    ELSE claim_address([node EXCEPT !.port_open = TRUE, !.is_open = TRUE],
                       node.config.preferred_address, rxq)

\* J1939::close
close(node) ==
    IF ~node.is_open THEN node
    ELSE [node EXCEPT !.port_open = FALSE, !.is_open = FALSE, !.current_address = NoAddress]

\* the record of a J1939 call; was_open, unread and timeout: is_open, the
\* number of unread frames of the port and the timeout of the port when the
\* call began; heard: the frames the port delivers to the listen loop of
\* claim_address
NoJ1939Call ==
    [node |-> 0, op |-> "none", address |-> NoAddress, result |-> "none", sent |-> <<>>,
     message |-> NoMessage, was_open |-> FALSE, unread |-> 0, heard |-> <<>>, timeout |-> 0]

\* the ports of the other open nodes receive the frames node n sent; a full
\* buffer drops the frame
RECURSIVE Deliver(_, _)
Deliver(queue, frames) ==
    IF frames = <<>> THEN queue
    ELSE Deliver(IF Len(queue) < MaxQueue THEN Append(queue, Head(frames)) ELSE queue,
                 Tail(frames))

\* a call of node n returns: the node afterwards, the number of frames it
\* read and the frames it sent
J1939Finish(n, node2, consumed, sent, record) ==
    /\ nodes' = [nodes EXCEPT ![n] = node2]
    /\ bus' = [m \in Node |->
                 IF m = n THEN IF node2.port_open
                               THEN SubSeq(bus[n], consumed + 1, Len(bus[n]))
                               ELSE <<>>
                 ELSE IF nodes[m].port_open THEN Deliver(bus[m], sent)
                 ELSE bus[m]]
    /\ jlast' = record
    /\ UNCHANGED <<isotpVars, udsVars, pureVars, dlVars, canVars>>

ClaimAddresses == {128, 129, 200}

\* NAMEs of the other devices on the bus
ForeignNames == {0, 257}

\* frames other devices send: a claim of address 0x80, a standard frame
ForeignFrames ==
    {J1939Frame(BitOr(BitOr(6 * 67108864, PGN_ADDRESS_CLAIMED * 256), 128), NameBytes(name), TRUE) :
        name \in ForeignNames}
    \cup {J1939Frame(291, <<1, 2>>, FALSE)}

\* what the other devices send while a call of open is in progress
Arrivals == {<<>>} \cup {<<frame>> : frame \in ForeignFrames}

\* J1939::open; a frame that arrives during the call is received by the
\* port once physical.open has opened it, and by the other open ports
J1939Open(n) ==
    \E arriving \in Arrivals :
      LET rxq == IF nodes[n].is_open \/ validate(nodes[n].config) = "Ok"
                 THEN Deliver(bus[n], arriving) ELSE bus[n]
          r == open(nodes[n], rxq)
      IN  /\ nodes' = [nodes EXCEPT ![n] = r.node]
          /\ bus' = [m \in Node |->
                       IF m = n THEN SubSeq(rxq, r.consumed + 1, Len(rxq))
                       ELSE IF nodes[m].port_open THEN Deliver(Deliver(bus[m], arriving), r.sent)
                       ELSE bus[m]]
          /\ jlast' = [NoJ1939Call EXCEPT !.node = n, !.op = "open",
                                          !.address = nodes[n].config.preferred_address,
                                          !.result = r.result, !.sent = r.sent,
                                          !.was_open = nodes[n].is_open,
                                          !.unread = Len(rxq),
                                          !.heard = rxq,
                                          !.timeout = nodes[n].timeout]
          /\ UNCHANGED <<isotpVars, udsVars, pureVars, dlVars, canVars>>

J1939Close(n) ==
    J1939Finish(n, close(nodes[n]), 0, <<>>,
                [NoJ1939Call EXCEPT !.node = n, !.op = "close", !.result = "Ok"])

ClaimAddress(n) ==
    \E address \in ClaimAddresses :
      LET r == claim_address(nodes[n], address, bus[n])
      IN  J1939Finish(n, r.node, r.consumed, r.sent,
                      [NoJ1939Call EXCEPT !.node = n, !.op = "claim_address",
                                          !.address = address,
                                          !.result = r.result, !.sent = r.sent,
                                          !.was_open = nodes[n].is_open,
                                          !.unread = Len(bus[n]),
                                          !.heard = bus[n],
                                          !.timeout = nodes[n].timeout])

\* the timeout the caller sets with set_timeout
TimeoutValues == {250, 500, 2000}

\* J1939::set_timeout
J1939SetTimeout(n) ==
    \E timeout_ms \in TimeoutValues :
      LET r == set_timeout(nodes[n], timeout_ms)
      IN  J1939Finish(n, r.node, 0, <<>>,
                      [NoJ1939Call EXCEPT !.node = n, !.op = "set_timeout",
                                          !.result = r.result,
                                          !.was_open = nodes[n].is_open,
                                          !.timeout = nodes[n].timeout])

\* send of a request (PGN 0xEA00) to address 0x21
J1939Send(n) ==
    LET r == send(nodes[n], [priority |-> 6, pgn |-> 59937, source |-> 128, destination |-> 33],
                  <<0, 238, 0>>)
    IN  J1939Finish(n, nodes[n], 0, r.sent,
                    [NoJ1939Call EXCEPT !.node = n, !.op = "send",
                                        !.result = r.result, !.sent = r.sent])

\* J1939::receive
J1939Receive(n) ==
    LET record == [NoJ1939Call EXCEPT !.node = n, !.op = "receive"] IN
    IF ~nodes[n].is_open THEN
        J1939Finish(n, nodes[n], 0, <<>>, [record EXCEPT !.result = "NotInitialized"])
    ELSE IF bus[n] = <<>> THEN
        J1939Finish(n, nodes[n], 0, <<>>, [record EXCEPT !.result = "Timeout"])
    ELSE LET msg == parse_frame(Head(bus[n])) IN
         J1939Finish(n, nodes[n], 1, <<>>,
                     [record EXCEPT !.result = IF msg.ok THEN "Ok" ELSE "J1939Error",
                                    !.message = msg])

\* another device sends a frame; every open port with room receives it
Foreign ==
    /\ \E n \in Node : nodes[n].port_open /\ Len(bus[n]) < MaxQueue
    /\ \E frame \in ForeignFrames :
         bus' = [m \in Node |-> IF nodes[m].port_open THEN Deliver(bus[m], <<frame>>) ELSE bus[m]]
    /\ UNCHANGED <<nodes, jlast, isotpVars, udsVars, pureVars, dlVars, canVars>>

\* NAMEs the two nodes are configured with; 0 is rejected by validate
Names == {0, 1, 256}

\* J1939::with_physical for both nodes, preferred address 0x80 in 0x80..0x87
J1939Created ==
    /\ nodes \in [Node -> [config : [name : Names, preferred_address : {128},
                                     address_range : {<<128, 135>>}],
                           port_open : {FALSE}, is_open : {FALSE},
                           current_address : {NoAddress}, timeout : {current_timeout},
                           pc : {"idle"}, claiming : {NoAddress}]]
    /\ bus = [n \in Node |-> <<>>]
    /\ jlast = NoJ1939Call

NextJ1939 ==
    \/ \E n \in Node : J1939Open(n)
    \/ \E n \in Node : J1939Close(n)
    \/ \E n \in Node : ClaimAddress(n)
    \/ \E n \in Node : J1939Send(n)
    \/ \E n \in Node : J1939Receive(n)
    \/ Foreign

(***************************************************************************)
(* claim_address step by step.  In SpecJ1939Claim a call of open or        *)
(* claim_address is entered in one step and then runs one receive at a     *)
(* time, so that frames can arrive while it listens.  nodes[n].pc is       *)
(* "claim" once claim_address has been entered and "listen" inside its     *)
(* loop; nodes[n].claiming is its argument.  The application drives the    *)
(* nodes from one thread: a call begins when no other is in progress.      *)
(***************************************************************************)
AllIdle == \A m \in Node : nodes[m].pc = "idle"

\* J1939::open up to its call of claim_address
J1939OpenCall(n) ==
    /\ AllIdle
    /\ LET node == nodes[n]
           record == [NoJ1939Call EXCEPT !.node = n, !.op = "open",
                                         !.address = node.config.preferred_address,
                                         !.was_open = node.is_open,
                                         !.unread = Len(bus[n]),
                                         !.timeout = node.timeout]
       IN  IF node.is_open THEN
                J1939Finish(n, node, 0, <<>>, [record EXCEPT !.result = "Ok"])
           ELSE IF validate(node.config) # "Ok" THEN
                J1939Finish(n, node, 0, <<>>, [record EXCEPT !.result = validate(node.config)])
           ELSE J1939Finish(n, [node EXCEPT !.port_open = TRUE, !.is_open = TRUE,
                                            !.pc = "claim",
                                            !.claiming = node.config.preferred_address],
                            0, <<>>, record)

\* the caller enters claim_address(address)
ClaimAddressCall(n) ==
    /\ AllIdle
    /\ \E address \in ClaimAddresses :
         J1939Finish(n, [nodes[n] EXCEPT !.pc = "claim", !.claiming = address], 0, <<>>,
                     [NoJ1939Call EXCEPT !.node = n, !.op = "claim_address",
                                         !.address = address,
                                         !.was_open = nodes[n].is_open,
                                         !.unread = Len(bus[n]),
                                         !.timeout = nodes[n].timeout])

\* claim_address from its entry to the listen loop, and then one turn of
\* the loop per step: a receive that finds no frame fails with Timeout
ClaimAddressRun(n) ==
    /\ nodes[n].pc # "idle"
    /\ LET node == nodes[n]
           address == node.claiming
           Return(result, node2, consumed, sent) ==
               J1939Finish(n, [node2 EXCEPT !.pc = "idle", !.claiming = NoAddress],
                           consumed, sent,
                           [jlast EXCEPT !.result = result, !.sent = @ \o sent])
       IN  IF node.pc = "claim" THEN
                IF ~node.is_open THEN Return("NotInitialized", node, 0, <<>>)
                ELSE IF address < node.config.address_range[1]
                        \/ address > node.config.address_range[2]
                THEN Return("InvalidParameter", node, 0, <<>>)
                ELSE LET claim == send_address_claim(node, address) IN
                     IF claim.result # "Ok" THEN Return(claim.result, node, 0, <<>>)
                     ELSE J1939Finish(n, [set_timeout(node, claim_timeout).node
                                              EXCEPT !.pc = "listen"],
                                      0, claim.sent, [jlast EXCEPT !.sent = claim.sent])
           ELSE IF bus[n] = <<>> THEN
                \* Err(Timeout) => break Ok(())
                Return("Ok", [set_timeout(node, current_timeout).node
                                 EXCEPT !.current_address = address], 0, <<>>)
           ELSE IF Competing(parse_frame(Head(bus[n])), node.config.name, address) THEN
                LET restored == set_timeout(node, current_timeout).node
                    cannot_claim == [priority |-> 6, pgn |-> PGN_CANNOT_CLAIM,
                                     source |-> 254, destination |-> 255]
                IN  Return("J1939Error", restored, 1, send(node, cannot_claim, <<>>).sent)
           ELSE \* _ => continue
                J1939Finish(n, node, 1, <<>>, jlast)

\* J1939::with_physical for SpecJ1939Claim: node 1 is configured with a
\* valid NAME, node 2 with the NAME validate rejects
J1939ClaimCreated ==
    /\ J1939Created
    /\ nodes[1].config.name # 0
    /\ nodes[2].config.name = 0

NextJ1939Claim ==
    \/ \E n \in Node : J1939OpenCall(n)
    \/ \E n \in Node : ClaimAddressCall(n)
    \/ \E n \in Node : ClaimAddressRun(n)
    \/ \E n \in Node : AllIdle /\ J1939Close(n)
    \/ \E n \in Node : AllIdle /\ J1939SetTimeout(n)
    \/ \E n \in Node : AllIdle /\ J1939Receive(n)
    \/ Foreign

(***************************************************************************)
(* The J1939 identifier codec as a function: codec holds an address, the   *)
(* current_address of the node that builds the frame, and, once the codec  *)
(* has been applied, the frame built and the message parsed from it.       *)
(***************************************************************************)
PgnValues == {0, 33, 59937, 60928, 65226, 262143}
SourceValues == {0, 128, 254, 255}
CurrentAddresses == {NoAddress, 128, 129}

NoJ1939Frame == J1939Frame(0, <<>>, FALSE)

CodecInputs ==
    [address : [priority : 0..7, pgn : PgnValues, source : SourceValues, destination : {255}],
     current_address : CurrentAddresses,
     applied : {FALSE}, frame : {NoJ1939Frame}, parsed : {NoMessage}]

\* parse_frame(build_frame(address, [])) on a node with the given
\* current_address
CodecApply ==
    /\ ~codec.applied
    /\ LET frame == build_frame(codec.current_address, codec.address, <<>>)
       IN  codec' = [codec EXCEPT !.applied = TRUE, !.frame = frame,
                                  !.parsed = parse_frame(frame)]
    /\ UNCHANGED <<dtc, isotpVars, udsVars, j1939Vars, dlVars, canVars>>

(***************************************************************************)
(* The DTC formatting of Obd::read_dtc and Obd::read_permanent_dtc         *)
(* (application/obdii.rs) as a function of one 2-byte chunk of the         *)
(* response.  A string is modelled as the sequence of its characters.      *)
(***************************************************************************)
DigitChars == <<"0", "1", "2", "3", "4", "5", "6", "7", "8", "9">>

\* Display of an unsigned integer, as format!("{}") prints it: decimal
\* digits without leading zeros
RECURSIVE Display(_)
Display(n) ==
    IF n < 10 THEN <<DigitChars[n + 1]>>
    ELSE Display(n \div 10) \o <<DigitChars[(n % 10) + 1]>>

\* first_char of the DTC
FirstChar(chunk) ==
    CASE BitAnd(chunk[1] \div 64, 3) = 0 -> "P"
      [] BitAnd(chunk[1] \div 64, 3) = 1 -> "C"
      [] BitAnd(chunk[1] \div 64, 3) = 2 -> "B"
      [] BitAnd(chunk[1] \div 64, 3) = 3 -> "U"

\* format!("{}{}{}{}{}", first_char, (chunk[0] >> 4) & 0x03, chunk[0] & 0x0F,
\*         (chunk[1] >> 4) & 0x0F, chunk[1] & 0x0F)
FormatDtc(chunk) ==
    <<FirstChar(chunk)>>
        \o Display(BitAnd(chunk[1] \div 16, 3))
        \o Display(BitAnd(chunk[1], 15))
        \o Display(BitAnd(chunk[2] \div 16, 15))
        \o Display(BitAnd(chunk[2], 15))

\* the loop of read_dtc over response.data.chunks(2): a chunk of one byte,
\* the last one of a payload of odd length, yields no code
RECURSIVE ReadDtcCodes(_)
ReadDtcCodes(data) ==
    IF Len(data) < 2 THEN <<>>
    ELSE <<FormatDtc(SubSeq(data, 1, 2))>> \o ReadDtcCodes(SubSeq(data, 3, Len(data)))

\* the words before and the bytes after the chunk in a response payload:
\* none, the first resp. second word of the payload of test_obd_read_dtc,
\* or a single byte
WordsBefore == {<<>>, <<1, 51>>}
BytesAfter == {<<>>, <<2>>, <<2, 68>>}

\* chunk: a 2-byte word; data: a response payload that holds it
DtcInputs ==
    {[chunk |-> chunk, data |-> before \o chunk \o after, applied |-> FALSE,
      text |-> <<>>, codes |-> <<>>] :
        chunk \in (0..255) \X (0..255), before \in WordsBefore, after \in BytesAfter}

\* the body of the loop over response.data.chunks(2) for the chunk, and
\* the whole loop for the payload
DtcApply ==
    /\ ~dtc.applied
    /\ dtc' = [dtc EXCEPT !.applied = TRUE, !.text = FormatDtc(dtc.chunk),
                          !.codes = ReadDtcCodes(dtc.data)]
    /\ UNCHANGED <<codec, isotpVars, udsVars, j1939Vars, dlVars, canVars>>

(***************************************************************************)
(* The Downloader (application/uds.rs).  dl holds the Downloader and the   *)
(* locals of transfer_data: the input data, the number of bytes taken from *)
(* it, block_sequence_counter, the request of every send_request made, and *)
(* of the last TransferData block the frames read and the validator's      *)
(* verdict.                                                                *)
(***************************************************************************)
SID_REQUEST_DOWNLOAD == 52         \* 0x34
SID_TRANSFER_DATA == 54            \* 0x36
SID_REQUEST_TRANSFER_EXIT == 55    \* 0x37

MaxBlockUnits == 2     \* the ECU's answers decode to max_block_size 256 * (1..MaxBlockUnits)
LongData == 65025      \* the long input: 257 blocks of 254 bytes, so that the block counter wraps past 255

\* to_le_bytes of an n-byte unsigned integer
RECURSIVE BytesLE(_, _)
BytesLE(v, n) == IF n = 0 THEN <<>> ELSE <<v % 256>> \o BytesLE(v \div 256, n - 1)

\* u64::from_le_bytes
RECURSIVE FromLeBytes(_)
FromLeBytes(bytes) ==
    IF bytes = <<>> THEN 0 ELSE Head(bytes) + 256 * FromLeBytes(Tail(bytes))

\* array::from_fn in request_download: byte i (0-based) of the array is
\* max_num_block_len[i - offset] when i > offset, and 0 otherwise
BlockLenBytes(max_num_block_len, count) ==
    LET offset == 8 - count
    IN  [k \in 1..8 |-> IF k - 1 > offset THEN max_num_block_len[(k - 1 - offset) + 1] ELSE 0]

\* Uds::request_download after send_request has returned Ok with
\* response.data = data, up to the assert of Downloader::new.  An index or
\* slice out of range is IndexPanic, a failed assert is AssertPanic.
request_download(data) ==
    IF data = <<>> THEN [result |-> "UdsError", max_block_size |-> 0]
    ELSE IF Len(data) < 2 THEN [result |-> "IndexPanic", max_block_size |-> 0]
    ELSE LET max_num_block_len_byte_count == data[2] \div 16 IN
         IF max_num_block_len_byte_count + 1 > Len(data)
         THEN [result |-> "IndexPanic", max_block_size |-> 0]
         ELSE IF max_num_block_len_byte_count > 8
         THEN [result |-> "AssertPanic", max_block_size |-> 0]
         ELSE LET max_num_block_len == Slice(data, 1, max_num_block_len_byte_count + 1)
                  max_block_size ==
                      FromLeBytes(BlockLenBytes(max_num_block_len, max_num_block_len_byte_count))
              IN  IF max_block_size > 2
                  THEN [result |-> "Ok", max_block_size |-> max_block_size]
                  ELSE [result |-> "AssertPanic", max_block_size |-> max_block_size]

\* block_sequence_counter that runs 1..255 and starts again at 1
NextBlockSeqFromOne(counter) == IF counter = 255 THEN 1 ELSE counter + 1

\* block_sequence_counter.wrapping_add(1)
NextBlockSeq(counter) == (counter + 1) % 256

\* (&mut data).take(max_block_size - overhead_bytes) with offset bytes
\* already taken
DataChunk(data, offset, max_block_size) ==
    SubSeq(data, offset + 1, Min(offset + max_block_size - 2, Len(data)))

\* what the ECU may send on a TransferData request: nothing; the positive
\* response with the block counter, bare or followed by a byte, at once or
\* after one pending response; the positive response with another counter
\* or with none; a negative response; max_retries pending responses
BlockReplies(request) ==
    {<<>>,
     << <<SID_TRANSFER_DATA + 64, request[2]>> >>,
     << <<SID_TRANSFER_DATA + 64, request[2], 171>> >>,
     << Pending(SID_TRANSFER_DATA), <<SID_TRANSFER_DATA + 64, request[2]>> >>,
     << <<SID_TRANSFER_DATA + 64, (request[2] + 1) % 256>> >>,
     << <<SID_TRANSFER_DATA + 64>> >>,
     << <<127, SID_TRANSFER_DATA, NRC_REQUEST_OUT_OF_RANGE>> >>,
     Pendings(SID_TRANSFER_DATA, max_retries)}

\* what the ECU may send on a RequestTransferExit request
ExitReplies ==
    {<<>>,
     << <<SID_REQUEST_TRANSFER_EXIT + 64>> >>,
     << Pending(SID_REQUEST_TRANSFER_EXIT), <<SID_REQUEST_TRANSFER_EXIT + 64>> >>,
     << <<SID_REQUEST_TRANSFER_EXIT + 64, 171>> >>,
     << <<127, SID_REQUEST_TRANSFER_EXIT, NRC_REQUEST_OUT_OF_RANGE>> >>}

\* Downloader::new and the first lines of transfer_data
NewDownloader(max_block_size, data) ==
    [max_block_size |-> max_block_size, data |-> data, offset |-> 0,
     block_sequence_counter |-> 1, requests |-> <<>>, step |-> "none",
     block_frames |-> <<>>, validated |-> "none", pc |-> "transfer", result |-> "none",
     download_frames |-> <<>>]

\* what the ECU may send on a RequestDownload request.  The positive
\* response is [0x74, lengthFormatIdentifier, maxNumberOfBlockLength...]:
\* nothing; 256 in two bytes; 4 and 2 in one byte; two bytes announced and
\* one or none sent; 256 in eight bytes; eight bytes that begin with 0x80
\* and carry 1..MaxBlockUnits in the next byte; a negative response;
\* max_retries pending responses.  The bytes are chosen so that the value
\* request_download computes stays below 2^31.
DownloadReplies ==
    {<<>>,
     << <<SID_REQUEST_DOWNLOAD + 64, 32, 1, 0>> >>,
     << <<SID_REQUEST_DOWNLOAD + 64, 16, 4>> >>,
     << <<SID_REQUEST_DOWNLOAD + 64, 16, 2>> >>,
     << <<SID_REQUEST_DOWNLOAD + 64, 32, 1>> >>,
     << <<SID_REQUEST_DOWNLOAD + 64, 32>> >>,
     << <<SID_REQUEST_DOWNLOAD + 64, 128, 0, 0, 0, 0, 0, 0, 1, 0>> >>,
     << <<127, SID_REQUEST_DOWNLOAD, NRC_REQUEST_OUT_OF_RANGE>> >>,
     Pendings(SID_REQUEST_DOWNLOAD, max_retries)}
    \cup {<< <<SID_REQUEST_DOWNLOAD + 64, 128, 128, units, 0, 0, 0, 0, 0, 0>> >> :
              units \in 1..MaxBlockUnits}

\* Uds::request_download::<u32, u32>(0x1000, data.len()): the request is
\* [0x34, data_format, address_and_length_format, address, size]
RequestDownload ==
    /\ dl.pc = "request"
    /\ LET request == <<SID_REQUEST_DOWNLOAD, 0, 4 + 4 * 16>>
                          \o BytesLE(4096, 4) \o BytesLE(Len(dl.data), 4)
       IN  \E script \in DownloadReplies :
             LET rxq == Incoming(script)
                 r == send_request(uds, request, rxq)
                 d == request_download(r.response.data)
                 frames == SubSeq(rxq, 1, r.consumed)
             IN  /\ uds_rx' = SubSeq(rxq, r.consumed + 1, Len(rxq))
                 /\ dl' = IF r.result # "Ok" THEN
                               [dl EXCEPT !.pc = "done", !.result = r.result,
                                          !.step = "download", !.download_frames = frames]
                          ELSE IF d.result # "Ok" THEN
                               [dl EXCEPT !.pc = "done", !.result = d.result,
                                          !.step = "download", !.download_frames = frames]
                          ELSE [NewDownloader(d.max_block_size, dl.data) EXCEPT
                                          !.step = "download", !.download_frames = frames]
    /\ UNCHANGED <<uds, now, last, isotpVars, j1939Vars, pureVars, canVars>>

\* one turn of the loop of transfer_data that sends a block
TransferBlock ==
    /\ dl.pc = "transfer"
    /\ LET data_chunk == DataChunk(dl.data, dl.offset, dl.max_block_size)
           request == <<SID_TRANSFER_DATA, dl.block_sequence_counter>> \o data_chunk
       IN  /\ data_chunk # <<>>
           /\ \E script \in BlockReplies(request), verdict \in {"ok", "error"} :
                LET rxq == Incoming(script)
                    r == send_request(uds, request, rxq)
                    sent == [dl EXCEPT !.requests = IF r.written > 0 THEN Append(@, request) ELSE @,
                                       !.step = "block",
                                       !.block_frames = SubSeq(rxq, 1, r.consumed),
                                       !.validated = "none"]
                IN  /\ uds_rx' = SubSeq(rxq, r.consumed + 1, Len(rxq))
                    /\ dl' = IF r.result # "Ok" THEN
                                  [sent EXCEPT !.pc = "done", !.result = r.result]
                             ELSE IF r.response.data = <<>> THEN
                                  [sent EXCEPT !.pc = "done", !.result = "UdsError"]
                             ELSE IF r.response.data[1] # dl.block_sequence_counter THEN
                                  [sent EXCEPT !.pc = "done", !.result = "UdsError"]
                             ELSE IF verdict # "ok" THEN
                                  [sent EXCEPT !.validated = verdict, !.pc = "done",
                                               !.result = "UdsError"]
                             ELSE [sent EXCEPT !.validated = verdict,
                                               !.offset = @ + Len(data_chunk),
                                               !.block_sequence_counter = NextBlockSeq(@)]
    /\ UNCHANGED <<uds, now, last, isotpVars, j1939Vars, pureVars, canVars>>

\* the turn of the loop that finds the input exhausted, and the
\* RequestTransferExit after the loop
TransferExit ==
    /\ dl.pc = "transfer"
    /\ DataChunk(dl.data, dl.offset, dl.max_block_size) = <<>>
    /\ LET request == <<SID_REQUEST_TRANSFER_EXIT>> IN
       \E script \in ExitReplies :
         LET rxq == Incoming(script)
             r == send_request(uds, request, rxq)
         IN  /\ uds_rx' = SubSeq(rxq, r.consumed + 1, Len(rxq))
             /\ dl' = [dl EXCEPT !.requests = IF r.written > 0 THEN Append(@, request) ELSE @,
                                 !.step = "exit",
                                 !.pc = "done",
                                 !.result = IF r.result # "Ok" THEN r.result
                                            ELSE IF r.response.data # <<>> THEN "UdsError"
                                            ELSE "Ok"]
    /\ UNCHANGED <<uds, now, last, isotpVars, j1939Vars, pureVars, canVars>>

\* input lengths: none, one byte, one and two blocks of 254 bytes exactly
\* and with one byte more, and the long input
DataLens ==
    {0, 1} \cup {blocks * (256 - 2) + more : blocks \in 1..2, more \in {0, 1}} \cup {LongData}

\* the input bytes, collected into a vector
InputData(len) == SubSeq(MkPayload(len, "ramp"), 1, len)

\* an open engine and the input, before request_download is called
DownloaderCreated ==
    /\ dl \in {[NewDownloader(0, InputData(len)) EXCEPT !.pc = "request"] : len \in DataLens}
    /\ uds = [is_open |-> TRUE, transport_open |-> TRUE, session_type |-> "Default",
              security_level |-> 0, last_activity |-> 0, tester_present_sent |-> FALSE]
    /\ now = 0
    /\ uds_rx = <<>>
    /\ last = NoCall

NextDownload ==
    \/ RequestDownload
    \/ TransferBlock
    \/ TransferExit

(***************************************************************************)
(* The specifications.  Each one runs one part of the library and holds    *)
(* the variables of the other parts at rest.                               *)
(***************************************************************************)
IsoTpAtRest ==
    /\ config = [address_mode |-> "Normal", use_padding |-> FALSE, block_size |-> 0, st_min |-> 0]
    /\ payload = <<>>
    /\ sender = SenderIdle
    /\ receiver = ReceiverIdle
    /\ toRx = <<>>
    /\ toTx = <<>>
    /\ wire = <<>>
    /\ tampered = FALSE

UdsAtRest ==
    /\ uds = [is_open |-> FALSE, transport_open |-> FALSE, session_type |-> "Default",
              security_level |-> 0, last_activity |-> 0, tester_present_sent |-> FALSE]
    /\ now = 0
    /\ uds_rx = <<>>
    /\ last = NoCall

J1939AtRest ==
    /\ nodes = [n \in Node |->
                  [config |-> [name |-> n, preferred_address |-> 128, address_range |-> <<128, 135>>],
                   port_open |-> FALSE, is_open |-> FALSE, current_address |-> NoAddress,
                   timeout |-> current_timeout, pc |-> "idle", claiming |-> NoAddress]]
    /\ bus = [n \in Node |-> <<>>]
    /\ jlast = NoJ1939Call

CodecAtRest ==
    codec = [address |-> [priority |-> 0, pgn |-> 0, source |-> 0, destination |-> 255],
             current_address |-> NoAddress, applied |-> FALSE, frame |-> NoJ1939Frame,
             parsed |-> NoMessage]

DtcAtRest ==
    dtc = [chunk |-> <<0, 0>>, data |-> <<0, 0>>, applied |-> FALSE, text |-> <<>>,
           codes |-> <<>>]

DownloadAtRest == dl = NewDownloader(3, <<>>)

(***************************************************************************)
(* CAN and CAN FD controllers (physical/can.rs, physical/canfd.rs).  Both  *)
(* keep a TxQueue of the same code; can.kind tells which controller it is. *)
(* can.port is the sequence of frames port.send has accepted.  A panic     *)
(* ends the program: can.pc = "panicked" and nothing more is done.         *)
(***************************************************************************)
TX_QUEUE_SIZE == 32
TX_EVENT_QUEUE_SIZE == 32

MaxSends == 3       \* send_frame is called at most MaxSends times

\* TxQueue::new / TxEventQueue::new; frames are kept 1-based, so that the
\* Vec index i is position i + 1
QueueNew == [frames |-> <<>>, head |-> 0, tail |-> 0, count |-> 0]

\* TxQueue::push
TxQueuePush(q, frame) ==
    IF q.count >= TX_QUEUE_SIZE THEN [result |-> "BufferOverflow", q |-> q]
    ELSE LET tail == IF q.tail >= TX_QUEUE_SIZE THEN 0 ELSE q.tail
         IN  [result |-> "Ok",
              q |-> [q EXCEPT !.frames = Append(@, frame), !.count = @ + 1,
                              !.tail = tail + 1]]

\* Vec::remove(index) for index < len
VecRemove(v, index) == SubSeq(v, 1, index) \o SubSeq(v, index + 2, Len(v))

NoCanFrame == [id |-> 0, is_fd |-> FALSE, data |-> <<>>]

\* TxQueue::pop; Vec::remove panics when the index is not below the length
TxQueuePop(q) ==
    IF q.count = 0 THEN [result |-> "None", q |-> q, frame |-> NoCanFrame]
    ELSE LET head == IF q.head >= TX_QUEUE_SIZE THEN 0 ELSE q.head
         IN  IF head >= Len(q.frames) THEN
                  [result |-> "IndexPanic", q |-> [q EXCEPT !.head = head],
                   frame |-> NoCanFrame]
             ELSE [result |-> "Some",
                   q |-> [q EXCEPT !.frames = VecRemove(@, head), !.count = @ - 1,
                                   !.head = head + 1],
                   frame |-> q.frames[head + 1]]

\* TxEventQueue::push
TxEventQueuePush(q, event) ==
    IF q.count >= TX_EVENT_QUEUE_SIZE THEN [result |-> "BufferOverflow", q |-> q]
    ELSE LET tail == IF q.tail >= TX_EVENT_QUEUE_SIZE THEN 0 ELSE q.tail
         IN  [result |-> "Ok",
              q |-> [q EXCEPT !.frames = Append(@, event), !.count = @ + 1,
                              !.tail = tail + 1]]

\* Can::tx_pending / CanFd::tx_pending
tx_pending(c) == c.tx_queue.count

\* Can::tx_space / CanFd::tx_space
tx_space(c) == TX_QUEUE_SIZE - c.tx_queue.count

\* frames the caller hands to send_frame
CanFrames == [id : {291, 292}, is_fd : BOOLEAN, data : {<<1, 2>>}]

NoCanCall == [op |-> "none", result |-> "none", frame |-> NoCanFrame, port_before |-> <<>>]

\* Can::with_port / CanFd::with_port
NewCan(kind, valid, record_tx_events) ==
    [kind |-> kind, valid |-> valid, record_tx_events |-> record_tx_events,
     is_open |-> FALSE, tx_queue |-> QueueNew, tx_events |-> QueueNew, sequence |-> 0,
     port |-> <<>>, sends |-> 0, pc |-> "ready", last |-> NoCanCall]

CanAtRest == can = NewCan("Can", TRUE, FALSE)

\* a Can with any configuration, or a CanFd with or without RECORD_TX_EVENTS
CanCreated ==
    can \in {NewCan("Can", valid, FALSE) : valid \in BOOLEAN}
            \cup {NewCan("CanFd", valid, record) : valid, record \in BOOLEAN}

CanReturn(c, op, result, frame) ==
    can' = [c EXCEPT !.last = [op |-> op, result |-> result, frame |-> frame,
                               port_before |-> can.port]]

\* Can::open / CanFd::open
CanOpen ==
    /\ can.pc = "ready"
    /\ IF can.is_open THEN CanReturn(can, "open", "Ok", NoCanFrame)
       ELSE IF ~can.valid THEN CanReturn(can, "open", "InvalidParameter", NoCanFrame)
       ELSE CanReturn([can EXCEPT !.is_open = TRUE], "open", "Ok", NoCanFrame)
    /\ UNCHANGED <<isotpVars, udsVars, j1939Vars, pureVars, dlVars>>

\* Can::close / CanFd::close
CanClose ==
    /\ can.pc = "ready"
    /\ CanReturn([can EXCEPT !.is_open = FALSE], "close", "Ok", NoCanFrame)
    /\ UNCHANGED <<isotpVars, udsVars, j1939Vars, pureVars, dlVars>>

\* Can::send_frame / CanFd::send_frame; port_ok is the outcome of port.send
CanSendFrame ==
    /\ can.pc = "ready"
    /\ can.sends < MaxSends
    /\ \E frame \in CanFrames, port_ok \in BOOLEAN :
         LET c == [can EXCEPT !.sends = @ + 1] IN
         IF ~c.is_open THEN CanReturn(c, "send_frame", "NotInitialized", frame)
         ELSE IF c.kind = "Can" /\ frame.is_fd THEN
              CanReturn(c, "send_frame", "InvalidParameter", frame)
         ELSE LET pushed == TxQueuePush(c.tx_queue, frame) IN
              IF pushed.result # "Ok" THEN CanReturn(c, "send_frame", pushed.result, frame)
              ELSE LET popped == TxQueuePop(pushed.q)
                       c2 == [c EXCEPT !.tx_queue = popped.q]
                   IN  IF popped.result = "IndexPanic" THEN
                            CanReturn([c2 EXCEPT !.pc = "panicked"], "send_frame",
                                      "IndexPanic", frame)
                       ELSE IF popped.result = "None" THEN
                            CanReturn(c2, "send_frame", "Ok", frame)
                       ELSE LET recording == c.kind = "CanFd" /\ c.record_tx_events
                                event == [frame |-> popped.frame, sequence |-> c.sequence]
                                recorded == TxEventQueuePush(c.tx_events, event)
                                \* sequence.wrapping_add(1): a u32, far from
                                \* wrapping within MaxSends calls
                                c3 == IF recording
                                      THEN [c2 EXCEPT !.sequence = @ + 1,
                                                      !.tx_events = recorded.q]
                                      ELSE c2
                            IN  IF recording /\ recorded.result # "Ok" THEN
                                     CanReturn(c3, "send_frame", recorded.result, frame)
                                ELSE IF ~port_ok THEN
                                     CanReturn(c3, "send_frame", "PortError", frame)
                                ELSE CanReturn([c3 EXCEPT !.port = Append(@, popped.frame)],
                                               "send_frame", "Ok", frame)
    /\ UNCHANGED <<isotpVars, udsVars, j1939Vars, pureVars, dlVars>>

NextCan == CanOpen \/ CanClose \/ CanSendFrame

IsoTpConfigs ==
    [address_mode : AddressModes, use_padding : BOOLEAN,
     block_size : 0..MaxBlockSize, st_min : StMinValues]

InitIsoTp ==
    /\ config \in IsoTpConfigs
    /\ payload \in {MkPayload(len, kind) : len \in PayloadLens, kind \in PayloadKinds}
    /\ sender = SenderIdle
    /\ receiver = ReceiverIdle
    /\ toRx = <<>>
    /\ toTx = <<>>
    /\ wire = <<>>
    /\ tampered = FALSE
    /\ UdsAtRest
    /\ J1939AtRest
    /\ CodecAtRest
    /\ DtcAtRest
    /\ DownloadAtRest
    /\ CanAtRest

InitIsoTpFault ==
    /\ config \in IsoTpConfigs
    /\ payload \in {MkPayload(len, "ramp") : len \in 1..MaxShortLen}
    /\ sender = SenderIdle
    /\ receiver = ReceiverIdle
    /\ toRx = <<>>
    /\ toTx = <<>>
    /\ wire = <<>>
    /\ tampered = FALSE
    /\ UdsAtRest
    /\ J1939AtRest
    /\ CodecAtRest
    /\ DtcAtRest
    /\ DownloadAtRest
    /\ CanAtRest

NextIsoTp ==
    \/ Send
    \/ SendWaitFC
    \/ SendCF
    \/ SendWaitNextFC
    \/ Receive
    \/ ReceiveCF
    \/ ReceiveCFTimeout
    \/ SenderOpen
    \/ SenderClose
    \/ ReceiverOpen
    \/ ReceiverClose

NextIsoTpFault ==
    \/ NextIsoTp
    \/ SendFCTimeout
    \/ CorruptCF
    \/ ReceiveTimeout
    \/ PeerFlowStatus

SpecIsoTp == InitIsoTp /\ [][NextIsoTp]_vars

SpecIsoTpFault == InitIsoTpFault /\ [][NextIsoTpFault]_vars

NextIsoTpMalformed ==
    \/ NextIsoTp
    \/ SendFCTimeout
    \/ ReceiveTimeout
    \/ TruncateFrame

SpecIsoTpMalformed == InitIsoTpFault /\ [][NextIsoTpMalformed]_vars

\* the largest value of the 12-bit length field of a First Frame
MaxFirstFrameLength == 16 * 256 - 1

\* payload lengths around the limits of IsoTp::send: none, the last Single
\* Frame, the first First Frame, a First Frame with two Consecutive Frames,
\* the largest length the First Frame can carry, and lengths beyond it
LimitLens == {0, 7, 8, 14}
LongLens == {MaxFirstFrameLength, MaxFirstFrameLength + 1, 17 * 256}

\* the long payloads go to a receiver that asks for one frame per block
LockStepConfigs ==
    [address_mode : AddressModes, use_padding : {FALSE}, block_size : {1}, st_min : {0}]

InitIsoTpLength ==
    /\ \/ /\ config \in IsoTpConfigs
          /\ payload \in {MkPayload(len, "ramp") : len \in LimitLens}
       \/ /\ config \in LockStepConfigs
          /\ payload \in {MkPayload(len, "ramp") : len \in LongLens}
    /\ sender = SenderIdle
    /\ receiver = ReceiverIdle
    /\ toRx = <<>>
    /\ toTx = <<>>
    /\ wire = <<>>
    /\ tampered = FALSE
    /\ UdsAtRest
    /\ J1939AtRest
    /\ CodecAtRest
    /\ DtcAtRest
    /\ DownloadAtRest
    /\ CanAtRest

NextIsoTpLength ==
    \/ NextIsoTp
    \/ SendFCTimeout
    \/ ReceiveTimeout

SpecIsoTpLength == InitIsoTpLength /\ [][NextIsoTpLength]_vars

NextIsoTpStray ==
    \/ NextIsoTp
    \/ SendFCTimeout
    \/ ReceiveTimeout
    \/ StrayFrame

SpecIsoTpStray == InitIsoTpFault /\ [][NextIsoTpStray]_vars

InitUds ==
    /\ UdsCreated
    /\ IsoTpAtRest
    /\ J1939AtRest
    /\ CodecAtRest
    /\ DtcAtRest
    /\ DownloadAtRest
    /\ CanAtRest

SpecUds == InitUds /\ [][NextUds]_vars

InitJ1939 ==
    /\ J1939Created
    /\ IsoTpAtRest
    /\ UdsAtRest
    /\ CodecAtRest
    /\ DtcAtRest
    /\ DownloadAtRest
    /\ CanAtRest

SpecJ1939 == InitJ1939 /\ [][NextJ1939]_vars

InitJ1939Claim ==
    /\ J1939ClaimCreated
    /\ IsoTpAtRest
    /\ UdsAtRest
    /\ CodecAtRest
    /\ DtcAtRest
    /\ DownloadAtRest
    /\ CanAtRest

\* a call that has been entered goes on running: its thread is scheduled
SpecJ1939Claim ==
    /\ InitJ1939Claim
    /\ [][NextJ1939Claim]_vars
    /\ \A n \in Node : WF_vars(ClaimAddressRun(n))

InitCodec ==
    /\ codec \in CodecInputs
    /\ IsoTpAtRest
    /\ UdsAtRest
    /\ J1939AtRest
    /\ DtcAtRest
    /\ DownloadAtRest
    /\ CanAtRest

NextCodec == CodecApply

SpecCodec == InitCodec /\ [][NextCodec]_vars

InitDtc ==
    /\ dtc \in DtcInputs
    /\ IsoTpAtRest
    /\ UdsAtRest
    /\ J1939AtRest
    /\ CodecAtRest
    /\ DownloadAtRest
    /\ CanAtRest

NextDtc == DtcApply

SpecDtc == InitDtc /\ [][NextDtc]_vars

InitDownload ==
    /\ DownloaderCreated
    /\ IsoTpAtRest
    /\ J1939AtRest
    /\ CodecAtRest
    /\ DtcAtRest
    /\ CanAtRest

SpecDownload == InitDownload /\ [][NextDownload]_vars

InitCan ==
    /\ CanCreated
    /\ IsoTpAtRest
    /\ UdsAtRest
    /\ J1939AtRest
    /\ CodecAtRest
    /\ DtcAtRest
    /\ DownloadAtRest

SpecCan == InitCan /\ [][NextCan]_vars

(***************************************************************************)
(* ISO-TP properties                                                       *)
(***************************************************************************)
\* the PCI byte of a frame as it travels on the wire
WirePci(f) == IF config.address_mode = "Extended" THEN f.data[2] ELSE f.data[1]

\* the Consecutive Frames the sender has emitted, in order
EmittedCFs == SelectSeq(wire, LAMBDA f : BitAnd(WirePci(f), 240) = PCI_CF)

BothReturned ==
    /\ sender.is_open
    /\ receiver.is_open
    /\ sender.pc = "done"
    /\ receiver.pc = "done"

\* C1: once send and receive have both returned on a clean pair, send
\* returned Ok and receive returned exactly the payload, for every block
\* size, every st_min and either padding setting.
C1_RoundTrip ==
    BothReturned =>
        /\ sender.result = "Ok"
        /\ receiver.result = "Ok"
        /\ receiver.out = payload

\* C2: the n-th Consecutive Frame emitted in one transfer carries sequence
\* counter n mod 16 in the low nibble of its PCI byte.
C2_SequenceCounter ==
    \A n \in 1..Len(EmittedCFs) : BitAnd(WirePci(EmittedCFs[n]), 15) = n % 16

\* a completed transfer whose counter went 1..15, 0 and on to 1 again
C2_Witness ==
    /\ sender.result = "Ok"
    /\ Len(EmittedCFs) >= 17
    /\ sender.block_size > 0

\* C3: once a Consecutive Frame with a wrong sequence nibble has been put in
\* front of the receiver, receive returns IsoTpError and hands no payload
\* bytes to the caller.
C3_OutOfOrderRejected ==
    (tampered /\ receiver.pc = "done") =>
        /\ receiver.result = "IsoTpError"
        /\ receiver.out = <<>>

\* the receiver had accepted a Consecutive Frame, then met the altered one
\* and failed while later frames were still in the pipe
C3_Witness ==
    /\ tampered
    /\ receiver.pc = "done"
    /\ receiver.result = "IsoTpError"
    /\ Len(receiver.data) >= 13
    /\ toRx # <<>>

(***************************************************************************)
(* UDS properties                                                          *)
(***************************************************************************)
\* the service methods that make one send_request
SingleRequestOps ==
    {"change_session", "ecu_reset", "read_data_by_id", "write_data_by_id",
     "read_memory", "write_memory"}

\* frame is a negative response to service_id other than response pending
IsRejection(frame, service_id) ==
    /\ Len(frame) >= 3
    /\ frame[1] = 127
    /\ frame[2] = service_id
    /\ frame[3] # NRC_RESPONSE_PENDING

\* C4: a call whose request was answered by a frame that is neither a
\* negative response nor begins with SID + 0x40 returns UdsError.
C4_EchoRequired ==
    \A i \in 1..Len(last.answers) :
        LET answer == last.answers[i] IN
        (answer # <<>> /\ answer[1] # 127 /\ answer[1] # last.service_id + 64)
            => last.result = "UdsError"

\* the dialog of the last call: k pending responses and then a positive
\* response
PositiveAfter(k) ==
    /\ last.op \in SingleRequestOps
    /\ last.written > 0
    /\ Len(last.offered) = k + 1
    /\ SubSeq(last.offered, 1, k) = Pendings(last.service_id, k)
    /\ last.offered[k + 1] # <<>>
    /\ last.offered[k + 1][1] = last.service_id + 64

\* C5: when the ECU sends k < 5 pending responses and then the positive
\* response, send_request returns the response value it returns when the
\* ECU sends the positive response at once.
C5_PendingIdempotent ==
    \A k \in 0..4 :
        PositiveAfter(k) =>
            last.response
                = [service_id |-> last.offered[k + 1][1], data |-> Tail(last.offered[k + 1])]

C5_Witness ==
    /\ PositiveAfter(4)
    /\ last.op = "read_data_by_id"
    /\ Len(last.consumed) = 5
    /\ last.written = 5
    /\ last.answers = << <<SID_READ_DATA_BY_ID + 64, 241, 144, 171>> >>
    /\ last.result = "Ok"
    /\ last.value = <<241, 144, 171>>

\* C6: a call that begins with the S3 timeout exceeded in a non-Default
\* session and transmits a request has set session_type to Default before
\* the request frame is written.
C6_S3ResetBeforeRequest ==
    (last.expired /\ last.written > 0) => last.tx_session = "Default"

\* C10: a call whose request was answered by a negative response with an
\* NRC other than 0x78 returns UdsError and leaves session_type and
\* security_level as they were.
C10_NegativeResponseFails ==
    (\E i \in 1..Len(last.answers) : IsRejection(last.answers[i], last.service_id))
        => (/\ last.result = "UdsError"
            /\ uds.session_type = last.pre_session
            /\ uds.security_level = last.pre_level)

(***************************************************************************)
(* J1939 properties                                                        *)
(***************************************************************************)
\* node n has just claimed the address that the other open node, with a
\* different NAME, claimed when it was opened
Contested(n) ==
    /\ jlast.node = n
    /\ jlast.op = "claim_address"
    /\ nodes[n].is_open
    /\ nodes[Other(n)].is_open
    /\ jlast.address = nodes[Other(n)].config.preferred_address
    /\ nodes[n].config.name # 0
    /\ nodes[Other(n)].config.name # 0
    /\ nodes[n].config.name # nodes[Other(n)].config.name

\* C7: when two nodes with different NAMEs claim the same address, the
\* claim_address of the node with the lower NAME returns Ok and the node
\* owns the address; the claim_address of the node with the higher NAME
\* does not return Ok and the node does not own the address.
C7_LowerNameWins ==
    \A n \in Node :
        Contested(n) =>
            IF nodes[n].config.name < nodes[Other(n)].config.name
            THEN jlast.result = "Ok" /\ nodes[n].current_address = jlast.address
            ELSE jlast.result # "Ok" /\ nodes[n].current_address # jlast.address

\* C8: the message parsed from the frame built for an address has the
\* priority, the pgn and the source of the address.
C8_CodecRoundTrip ==
    codec.applied =>
        /\ codec.parsed.ok
        /\ codec.parsed.address.priority = codec.address.priority
        /\ codec.parsed.address.pgn = codec.address.pgn
        /\ codec.parsed.address.source = codec.address.source

(***************************************************************************)
(* OBD-II properties                                                       *)
(***************************************************************************)
\* C9: the string produced for a 2-byte DTC word has exactly 5 characters
\* and its first character is one of P, C, B, U.
C9_DtcFiveChars ==
    dtc.applied => (Len(dtc.text) = 5 /\ dtc.text[1] \in {"P", "C", "B", "U"})

(***************************************************************************)
(* UDS properties, continued                                               *)
(***************************************************************************)
\* the ECU answered the one request of the last call with pending responses
\* only, at least max_retries of them
OnlyPending ==
    /\ last.op \in SingleRequestOps
    /\ last.written > 0
    /\ Len(last.offered) >= 5
    /\ PendingPrefix(last.offered, last.service_id) = Len(last.offered)

\* C11: when the ECU keeps answering with pending responses, the call stops
\* after 5 of them and returns UdsError; it does not return Ok with a
\* response the ECU did not send.
C11_BoundedPendingRetry ==
    OnlyPending =>
        /\ last.result = "UdsError"
        /\ last.response = NoResponse

\* C12: in every state of the engine, session_type = Default implies
\* security_level = 0.
C12_SessionInvariant ==
    uds.session_type = "Default" => uds.security_level = 0

\* the dialog of the last call: a security_access of the level whose
\* RequestSeed is answered by a positive response with seed bytes and whose
\* second request is answered by the positive response to SendKey
Handshake(level) ==
    /\ last.op = "security_access"
    /\ last.written > 0
    /\ Len(last.offered) = 2
    /\ Len(last.offered[1]) >= 3
    /\ last.offered[1][1] = SID_SECURITY_ACCESS + 64
    /\ last.offered[1][2] = 2 * level - 1
    /\ last.offered[2] = <<SID_SECURITY_ACCESS + 64, 2 * level>>

\* the seed bytes of a positive response to RequestSeed
SeedOf(response) == SubSeq(response, 3, Len(response))

\* C13: security_access(level, key_fn) sends [0x27, 2*level-1], then
\* [0x27, 2*level, key...] with key = key_fn(seed), and on the positive
\* response [0x67, 2*level] returns Ok with security_level = level; a
\* security_access that does not return Ok leaves security_level unchanged.
C13_SecurityHandshake ==
    /\ \A level \in 1..MaxLevel :
         Handshake(level) =>
            /\ last.requests
                 = << <<SID_SECURITY_ACCESS, 2 * level - 1>>,
                      <<SID_SECURITY_ACCESS, 2 * level>>
                          \o ApplyKeyFn(last.key_fn, SeedOf(last.offered[1])) >>
            /\ last.result = "Ok"
            /\ uds.security_level = level
    /\ (last.op = "security_access" /\ last.result # "Ok")
            => uds.security_level = last.pre_level

\* the calls that are service requests
ServiceOps == SingleRequestOps \cup {"security_access", "tester_present"}

\* C14: a service call on an engine that is not open returns NotInitialized
\* without writing or reading a frame and without changing the session
\* status.
C14_ClosedEngineRejects ==
    (last.op \in ServiceOps /\ ~uds.is_open) =>
        /\ last.result = "NotInitialized"
        /\ last.written = 0
        /\ last.consumed = <<>>
        /\ uds.session_type = last.pre_session
        /\ uds.security_level = last.pre_level

(***************************************************************************)
(* ISO-TP properties, continued                                            *)
(***************************************************************************)
\* C15: a send whose wait for a Flow Control times out returns Timeout, and
\* a receive whose wait for the first frame or for a Consecutive Frame times
\* out returns Timeout.
C15_TimeoutKind ==
    [][/\ SendFCTimeout => sender'.result = "Timeout"
       /\ ReceiveTimeout => receiver'.result = "Timeout"
       /\ ReceiveCFTimeout => receiver'.result = "Timeout"]_vars

\* C16: on an instance that is not open, send and receive return
\* NotInitialized; the closed sender has handed no frame to the physical
\* layer, the closed receiver has read none and sent no Flow Control.
C16_ClosedTransportRejects ==
    /\ (sender.pc = "done" /\ ~sender.is_open)
            => (sender.result = "NotInitialized" /\ wire = <<>>)
    /\ (receiver.pc = "done" /\ ~receiver.is_open)
            => (receiver.result = "NotInitialized" /\ toTx = <<>> /\ Len(toRx) = Len(wire))

\* send and receive have both been called on closed instances
C16_Witness ==
    /\ sender.pc = "done"
    /\ ~sender.is_open
    /\ sender.result = "NotInitialized"
    /\ receiver.pc = "done"
    /\ ~receiver.is_open
    /\ receiver.result = "NotInitialized"
    /\ Len(payload) > 7

\* C17: the sender transmits a Consecutive Frame only after a Flow Control
\* with status CTS; after one with status WAIT it waits for another Flow
\* Control, and after one with status OVFL send has returned IsoTpError.
C17_FlowStatusHonoured ==
    /\ sender.pc = "send_cf" => sender.flow_status = 0
    /\ sender.flow_status = 1 =>
            \/ sender.pc \in {"wait_fc", "wait_next_fc"}
            \/ sender.pc = "done" /\ sender.result = "IsoTpError"
    /\ sender.flow_status = 2 =>
            sender.pc = "done" /\ sender.result = "IsoTpError"

\* the number of bytes of protocol content in the i-th frame the sender
\* emitted: the Single Frame or First Frame, then the Consecutive Frames
WireContent(i) ==
    AddressBytes
        + (IF i = 1
           THEN IF Len(payload) <= 7 THEN 1 + Len(payload) ELSE 8
           ELSE 1 + Min(Len(payload) - 6 - 7 * (i - 2), 7))

\* frame f has exactly 8 data bytes and padding_value after its content
PaddedTo8(f, content) ==
    /\ Len(f.data) = 8
    /\ \A i \in (content + 1)..8 : f.data[i] = PaddingValue

\* C18: with use_padding set, every frame handed to the physical layer, by
\* the sender (SF, FF, CF) and by the receiver (FC), has exactly 8 data
\* bytes, and the bytes after the protocol content equal padding_value.
C18_PaddedFrames ==
    config.use_padding =>
        /\ \A i \in 1..Len(wire) : PaddedTo8(wire[i], WireContent(i))
        /\ \A i \in 1..Len(toTx) : PaddedTo8(toTx[i], AddressBytes + 3)

\* C19: every frame the sender emits has at most 8 data bytes; in Extended
\* mode a Single Frame carries at most 6 payload bytes, a First Frame 5 and
\* a Consecutive Frame at most 6.
C19_ClassicFrameSize ==
    \A i \in 1..Len(wire) : Len(wire[i].data) <= 8

(***************************************************************************)
(* J1939 properties, continued                                             *)
(***************************************************************************)
\* J1939::get_address
get_address(node) ==
    IF node.current_address = NoAddress
    THEN [result |-> "J1939Error", address |-> NoAddress]
    ELSE [result |-> "Ok", address |-> node.current_address]

\* frame, as its receivers parse it, is the ADDRESS_CLAIMED message of the
\* NAME name for the address address
IsAddressClaimed(frame, name, address) ==
    LET m == parse_frame(frame) IN
        /\ m.ok
        /\ m.address.priority = 6
        /\ m.address.pgn = PGN_ADDRESS_CLAIMED
        /\ m.address.source = address
        /\ m.data = NameBytes(name)

\* node n, closed and with a valid configuration, has just been opened with
\* no frame waiting at its port
OpenedAlone(n) ==
    /\ jlast.node = n
    /\ jlast.op = "open"
    /\ ~jlast.was_open
    /\ jlast.unread = 0
    /\ validate(nodes[n].config) = "Ok"

\* C20: open() with a valid configuration and no competing claim returns
\* Ok, has transmitted exactly one ADDRESS_CLAIMED frame with source =
\* preferred_address and the NAME as data, and get_address() then returns
\* preferred_address.
C20_OpenClaimsPreferred ==
    \A n \in Node :
        OpenedAlone(n) =>
            /\ jlast.result = "Ok"
            /\ Len(jlast.sent) = 1
            /\ IsAddressClaimed(jlast.sent[1], nodes[n].config.name,
                                nodes[n].config.preferred_address)
            /\ get_address(nodes[n])
                 = [result |-> "Ok", address |-> nodes[n].config.preferred_address]

\* frame is an ADDRESS_CLAIMED for address with a NAME lower than name
LowerClaim(frame, name, address) ==
    LET m == parse_frame(frame) IN
        /\ m.ok
        /\ m.address.pgn = PGN_ADDRESS_CLAIMED
        /\ m.address.source = address
        /\ NameOf(Take(m.data, 8), 0) < name

\* node n, open, has called claim_address for an address of its range and a
\* competing claim of that address with a lower NAME was delivered to it
Outbid(n) ==
    /\ jlast.node = n
    /\ jlast.op = "claim_address"
    /\ jlast.was_open
    /\ jlast.address >= nodes[n].config.address_range[1]
    /\ jlast.address <= nodes[n].config.address_range[2]
    /\ \E i \in 1..Len(jlast.heard) :
          LowerClaim(jlast.heard[i], nodes[n].config.name, jlast.address)

\* frame, as its receivers parse it, is a CANNOT_CLAIM with source 0xFE
IsCannotClaim(frame) ==
    LET m == parse_frame(frame) IN
        m.ok /\ m.address.pgn = PGN_CANNOT_CLAIM /\ m.address.source = 254

\* C21: a claim_address that hears a competing ADDRESS_CLAIMED of the same
\* address with a lower NAME transmits a CANNOT_CLAIM frame with source
\* 0xFE, returns J1939Error and leaves the node without a claimed address.
C21_LostClaimAnnounced ==
    \A n \in Node :
        Outbid(n) =>
            /\ jlast.result = "J1939Error"
            /\ \E i \in 1..Len(jlast.sent) : IsCannotClaim(jlast.sent[i])
            /\ nodes[n].current_address = NoAddress

\* C22: send hands a frame to the port only while the node owns a claimed
\* address; a send of an open node without an address returns J1939Error
\* and a send of a closed node fails, both without a frame.
C22_SendNeedsAddress ==
    \A n \in Node :
        (jlast.node = n /\ jlast.op = "send") =>
            /\ jlast.sent # <<>> => (nodes[n].is_open /\ nodes[n].current_address # NoAddress)
            /\ (nodes[n].is_open /\ nodes[n].current_address = NoAddress)
                 => (jlast.result = "J1939Error" /\ jlast.sent = <<>>)
            /\ ~nodes[n].is_open => (jlast.result = "NotInitialized" /\ jlast.sent = <<>>)

\* a send of an open node that owns no address has failed without a frame
C22_Witness ==
    \E n \in Node :
        /\ jlast.node = n
        /\ jlast.op = "send"
        /\ nodes[n].is_open
        /\ nodes[n].current_address = NoAddress
        /\ jlast.result = "J1939Error"
        /\ jlast.sent = <<>>

(***************************************************************************)
(* Downloader properties                                                   *)
(***************************************************************************)
\* the TransferData requests among the requests made, in order
BlockRequests == SelectSeq(dl.requests, LAMBDA q : q[1] = SID_TRANSFER_DATA)

\* the payload of a TransferData request: what follows SID and blockSeq
BlockPayload(request) == SubSeq(request, 3, Len(request))

\* element n + 1 is the number of input bytes carried by the first n of
\* the requests, for n = 0..upto
RECURSIVE BytesBefore(_, _)
BytesBefore(requests, upto) ==
    IF upto = 0 THEN <<0>>
    ELSE LET before == BytesBefore(requests, upto - 1)
         IN  Append(before, before[upto] + Len(requests[upto]) - 2)

\* C23: the n-th TransferData request carries blockSeq = n mod 256 and
\* between 1 and max_block_size - 2 payload bytes; the payloads of the
\* requests, in order, are the input bytes taken so far, and the whole input
\* once RequestTransferExit has been sent.
C23_BlockSequence ==
    LET requests == BlockRequests
        before == BytesBefore(requests, Len(requests))
    IN  /\ \A i \in 1..Len(requests) :
              /\ requests[i][2] = i % 256
              /\ Len(BlockPayload(requests[i])) >= 1
              /\ Len(BlockPayload(requests[i])) <= dl.max_block_size - 2
              \* the payloads put end to end are the input taken so far
              /\ before[i + 1] <= Len(dl.data)
              /\ BlockPayload(requests[i]) = SubSeq(dl.data, before[i] + 1, before[i + 1])
        /\ dl.step = "exit" => before[Len(requests) + 1] = Len(dl.data)

\* a transfer of more than 256 blocks has been completed
C23_Witness ==
    /\ dl.pc = "done"
    /\ dl.result = "Ok"
    /\ Len(BlockRequests) > 256
    /\ BlockRequests[256][2] = 0
    /\ BlockRequests[257][2] = 1

\* the RequestTransferExit requests among the requests made
ExitRequests == SelectSeq(dl.requests, LAMBDA q : q[1] = SID_REQUEST_TRANSFER_EXIT)

\* the last TransferData block was answered by the positive response that
\* carries its blockSeq
PositivelyAnswered ==
    LET request == BlockRequests[Len(BlockRequests)]
        answer == Answer(dl.block_frames, SID_TRANSFER_DATA)
    IN  /\ answer # <<>>
        /\ Len(answer[1]) >= 2
        /\ answer[1][1] = SID_TRANSFER_DATA + 64
        /\ answer[1][2] = request[2]

\* transfer_data went on after the last TransferData block: to the next
\* block or to RequestTransferExit
WentOn == BlockRequests # <<>> /\ (dl.pc = "transfer" \/ dl.step = "exit")

\* C24: RequestTransferExit is sent at most once, as the last request, after
\* the whole input has been taken; transfer_data goes on after a block only
\* if the block was answered positively with its blockSeq and the validator
\* accepted it; a block answered with another blockSeq or rejected by the
\* validator ends transfer_data with UdsError and no further request.
C24_TransferExitProtocol ==
    /\ Len(ExitRequests) <= 1
    /\ ExitRequests # <<>> =>
          /\ dl.requests[Len(dl.requests)][1] = SID_REQUEST_TRANSFER_EXIT
          /\ dl.offset = Len(dl.data)
    /\ dl.result = "Ok" => Len(ExitRequests) = 1
    /\ WentOn => (PositivelyAnswered /\ dl.validated = "ok")
    /\ (dl.step = "block" /\ dl.pc = "done") =>
          (dl.result # "Ok" /\ ExitRequests = <<>>)
    /\ (dl.step = "block" /\ dl.validated = "error") =>
          (dl.pc = "done" /\ dl.result = "UdsError")

(***************************************************************************)
(* UDS properties, third part                                              *)
(***************************************************************************)
\* C25: whenever tester_present returns Ok, also when the S3 timeout had
\* expired, a TesterPresent request (SID 0x3E) has been written to the
\* transport and tester_present_sent is true.
C25_TesterPresentSent ==
    (last.op = "tester_present" /\ last.result = "Ok") =>
        /\ last.written > 0
        /\ \E i \in 1..Len(last.requests) : last.requests[i][1] = SID_TESTER_PRESENT
        /\ uds.tester_present_sent

\* read_data_by_id has read the positive response that echoes the DID of
\* its request
DidAnswered ==
    /\ last.op = "read_data_by_id"
    /\ Len(last.requests) = 1
    /\ Len(last.answers) = 1
    /\ Len(last.answers[1]) >= 3
    /\ last.answers[1][1] = SID_READ_DATA_BY_ID + 64
    /\ SubSeq(last.answers[1], 2, 3) = Tail(last.requests[1])

\* C26: read_data_by_id(did) sends [0x22, did_hi, did_lo] and on the
\* positive response [0x62, did_hi, did_lo, data...] returns exactly data...
C26_ReadDataStripsDid ==
    /\ (last.op = "read_data_by_id" /\ last.written > 0) =>
          (Len(last.requests) = 1
           /\ Len(last.requests[1]) = 3
           /\ last.requests[1][1] = SID_READ_DATA_BY_ID)
    /\ DidAnswered =>
          (last.result = "Ok" /\ last.value = SubSeq(last.answers[1], 4, Len(last.answers[1])))

(***************************************************************************)
(* OBD-II properties, continued                                            *)
(***************************************************************************)
HexChars == DigitChars \o <<"A", "B", "C", "D", "E", "F">>

\* the code of a 2-byte DTC word: the letter of the top two bits, the next
\* two bits as a digit, the three remaining nibbles as hexadecimal digits
DtcCode(word) ==
    <<FirstChar(word),
      DigitChars[BitAnd(word[1] \div 16, 3) + 1],
      HexChars[BitAnd(word[1], 15) + 1],
      HexChars[BitAnd(word[2] \div 16, 15) + 1],
      HexChars[BitAnd(word[2], 15) + 1]>>

\* C27: read_dtc returns one code per complete 2-byte word of the response
\* payload, in wire order, each the letter of the top two bits of the first
\* byte, the next two bits as a digit and the three remaining nibbles as
\* hexadecimal digits.
C27_ReadDtcCodes ==
    dtc.applied =>
        /\ Len(dtc.codes) = Len(dtc.data) \div 2
        /\ \A i \in 1..Len(dtc.codes) :
              dtc.codes[i] = DtcCode(SubSeq(dtc.data, 2 * i - 1, 2 * i))

(***************************************************************************)
(* ISO-TP properties, third part                                           *)
(***************************************************************************)
\* C28: whatever frames the physical layer delivers, also a First Frame of
\* fewer than 8 bytes, a Flow Control of fewer than 3 bytes or a Consecutive
\* Frame shorter than the bytes still expected, send and receive return Ok
\* or Err and never index out of range.
C28_NoIndexPanic ==
    /\ sender.result # "IndexPanic"
    /\ receiver.result # "IndexPanic"

(***************************************************************************)
(* UDS properties, fourth part                                             *)
(***************************************************************************)
\* C29: a call reads only frames the ECU sent after the call began, so the
\* response it returns answers its own request; and when a call that wrote
\* a request returns, no frame is left unread for a later call.
C29_ResponseCorrelation ==
    /\ (last.op \in ServiceOps /\ last.consumed # <<>>) => last.stale = 0
    /\ (last.op \in ServiceOps /\ last.written > 0) => uds_rx = <<>>

(***************************************************************************)
(* ISO-TP properties, fourth part                                          *)
(***************************************************************************)
\* the Consecutive Frames a payload of len > 7 bytes needs: 6 bytes go in
\* the First Frame, up to 7 in each Consecutive Frame
NumCFs(len) == (len - 6 + 6) \div 7

\* the sender has emitted the last Consecutive Frame of its payload, and the
\* number of Consecutive Frames is a multiple of the block size it was given
LastBlockFull ==
    /\ Len(payload) > 7
    /\ sender.block_size > 0
    /\ Len(EmittedCFs) = NumCFs(Len(payload))
    /\ NumCFs(Len(payload)) % sender.block_size = 0

\* C30: when BS > 0 and the number of Consecutive Frames is an exact
\* multiple of BS, send returns Ok right after the final Consecutive Frame
\* and neither waits for nor requires another Flow Control.
C30_NoWaitAfterLastCF ==
    LastBlockFull => (sender.pc = "done" /\ sender.result # "IsoTpError")

(***************************************************************************)
(* C31  A frame with an unexpected PCI aborts reception: when the first    *)
(* frame receive() reads is a Consecutive Frame or a Flow Control, receive *)
(* fails with IsoTpError; and once a First Frame has been accepted, a      *)
(* frame read without error whose PCI is not Consecutive Frame ends the    *)
(* reassembly with IsoTpError: it is never passed over while the receiver  *)
(* keeps waiting.                                                          *)
(***************************************************************************)
C31_FirstFrameRejected ==
    (receiver.first # <<>> /\ PciType(receiver.first) \in {PCI_CF, PCI_FC})
        => (receiver.pc = "done" /\ receiver.result = "IsoTpError")

C31_UnexpectedPciAborts ==
    /\ C31_FirstFrameRejected
    /\ receiver.skipped > 0 => (receiver.pc = "done" /\ receiver.result = "IsoTpError")

(***************************************************************************)
(* C32  IsoTp::send accepts payloads of 1..4095 bytes only: send of an     *)
(* empty payload on an open instance returns InvalidParameter and send of  *)
(* a payload longer than 4095 bytes returns an error, both without handing *)
(* a frame to the physical layer; and the 12-bit length field of every     *)
(* First Frame emitted equals the length of the payload.                   *)
(***************************************************************************)
\* the 12-bit length field of a First Frame on the wire
FirstFrameLength(f) ==
    LET data == receive_frame_with_addressing(f).frame.data
    IN  BitAnd(data[1], 15) * 256 + data[2]

EmittedFFs == SelectSeq(wire, LAMBDA f : BitAnd(WirePci(f), 240) = PCI_FF)

C32_EmptyRejected ==
    (Len(payload) = 0 /\ sender.pc = "done" /\ sender.result # "NotInitialized")
        => (sender.result = "InvalidParameter" /\ wire = <<>>)

C32_SendLengthRange ==
    /\ C32_EmptyRejected
    /\ Len(payload) > MaxFirstFrameLength
          => (wire = <<>> /\ (sender.pc = "done" => sender.result \notin {"Ok", "none"}))
    /\ \A i \in 1..Len(EmittedFFs) : FirstFrameLength(EmittedFFs[i]) = Len(payload)

(***************************************************************************)
(* C33  STmin decoding: the separation the sender applies after a          *)
(* Consecutive Frame is v milliseconds for an STmin byte v in 0x00..0x7F,  *)
(* (v - 0xF0) * 100 microseconds for v in 0xF1..0xF9, computed without    *)
(* 8-bit overflow, and the default of 1 millisecond for every other v.     *)
(***************************************************************************)
\* the separation the STmin byte v stands for, in microseconds
StMinMicros(v) ==
    IF v <= 127 THEN v * 1000
    ELSE IF v >= 241 /\ v <= 249 THEN (v - 240) * 100
    ELSE 1000

\* the sender has been through the separation-time branch at least once
SeparationApplied == sender.pc # "idle" /\ sender.index > 6

C33_StMinInRange ==
    (SeparationApplied /\ (sender.st_min <= 127 \/ sender.st_min \in 241..242))
        => sender.separation = StMinMicros(sender.st_min)

C33_StMinDecoding ==
    /\ sender.result # "Panic"
    /\ SeparationApplied => sender.separation = StMinMicros(sender.st_min)

(***************************************************************************)
(* C34  The session status does not survive a close: when close() has been *)
(* followed by open(), the status is fresh, with session_type Default,     *)
(* security_level 0 and tester_present_sent false, whatever session and    *)
(* level the engine held before the close.                                 *)
(***************************************************************************)
\* open() has just returned and the call before it was close()
Reopened == last.op = "open" /\ last.after_close /\ uds.is_open

C34_StatusFreshAfterReopen ==
    Reopened =>
        /\ uds.session_type = "Default"
        /\ uds.security_level = 0
        /\ uds.tester_present_sent = FALSE

(***************************************************************************)
(* C35  request_download: for a positive response [0x74, lenFmt, b1..bn]   *)
(* with n = lenFmt >> 4 in 1..8, the Downloader's max_block_size is the    *)
(* unsigned big-endian integer b1..bn; when the response is shorter than   *)
(* it announces, or the value is 2 or less, the call returns an error and  *)
(* does not panic.                                                         *)
(***************************************************************************)
\* the frame request_download took as the answer to RequestDownload
DownloadAnswer == Answer(dl.download_frames, SID_REQUEST_DOWNLOAD)

\* n = lenFmt >> 4 of a positive response
AnnouncedBytes(answer) == answer[2] \div 16

\* the frame is a positive response that announces 1..8 length bytes
IsDownloadPositive(answer) ==
    /\ Len(answer) >= 2
    /\ answer[1] = SID_REQUEST_DOWNLOAD + 64
    /\ AnnouncedBytes(answer) \in 1..8

\* b1..bn, as far as they were sent
BlockLengthBytes(answer) ==
    SubSeq(answer, 3, Min(2 + AnnouncedBytes(answer), Len(answer)))

\* the n-byte big-endian form of v
BytesBE(v, n) == Reverse(BytesLE(v, n))

\* the big-endian integer of the bytes is greater than 2
Above2(bytes) ==
    \E i \in 1..Len(bytes) : bytes[i] # 0 /\ (i < Len(bytes) \/ bytes[i] > 2)

\* request_download has returned Err
DownloadFailed ==
    /\ dl.step = "download"
    /\ dl.pc = "done"
    /\ dl.result \notin {"Ok", "none", "IndexPanic", "AssertPanic"}

C35_NoPanic == dl.result \notin {"IndexPanic", "AssertPanic"}

C35_MaxBlockSize ==
    (dl.step # "none" /\ DownloadAnswer # <<>> /\ IsDownloadPositive(DownloadAnswer[1])) =>
        LET answer == DownloadAnswer[1]
            n == AnnouncedBytes(answer)
            bytes == BlockLengthBytes(answer)
        IN  IF Len(bytes) = n /\ Above2(bytes)
            THEN /\ ~(dl.step = "download" /\ dl.pc = "done")
                 /\ BytesBE(dl.max_block_size, n) = bytes
            ELSE DownloadFailed

PduFormat(pgn) == BitAnd(pgn \div 256, 255)

C37_DestinationDecoding ==
    codec.applied =>
        LET pgn == codec.parsed.address.pgn IN
        codec.parsed.address.destination =
            IF PduFormat(pgn) < 240 THEN BitAnd(pgn, 255) ELSE 255

\* the PDU2 half of C37: a PF of 240 or more gives destination 0xFF
C37_Pdu2Broadcast ==
    (codec.applied /\ PduFormat(codec.parsed.address.pgn) >= 240)
        => codec.parsed.address.destination = 255

C39_OpenAllOrNothing ==
    \A n \in Node :
        (jlast.op = "open" /\ jlast.node = n) =>
            /\ jlast.result \notin {"Ok", "none"} => ~nodes[n].is_open
            /\ jlast.result = "Ok" => nodes[n].current_address # NoAddress

(***************************************************************************)
(* C40  CAN transmit queue: every successful send_frame hands exactly the  *)
(* frame it was given to the port, in call order, with tx_pending() = 0    *)
(* and tx_space() = TX_QUEUE_SIZE after it, and TxQueue::pop always        *)
(* removes an element at an index that exists in the backing vector.       *)
(***************************************************************************)
C40_SendHandsFrame ==
    (can.last.op = "send_frame" /\ can.last.result = "Ok") =>
        /\ can.port = Append(can.last.port_before, can.last.frame)
        /\ tx_pending(can) = 0
        /\ tx_space(can) = TX_QUEUE_SIZE

C40_TxQueue ==
    /\ C40_SendHandsFrame
    /\ can.pc # "panicked"
    /\ can.tx_queue.count > 0 => can.tx_queue.head < Len(can.tx_queue.frames)

====
